---- MODULE Spec2Model ----
(***************************************************************************)
(* stocknewstui: the per-source rate limiter (src/app.rs), the feed fetch  *)
(* orchestrator (src/feed.rs) and the consumer loop that drives them       *)
(* (src/event.rs).                                                         *)
(*                                                                         *)
(* Time is in seconds.  Instant::now() is read once per handler: a handler *)
(* of the single-threaded loop runs at one instant of the model's clock.   *)
(*                                                                         *)
(* Three specifications:                                                   *)
(*   SpecRL  the SourceFetchState record of one source under arbitrary     *)
(*           sequences of record_success / record_failure / passing time;  *)
(*   Spec    the consumer loop of run_loop with its spawned fetch tasks;   *)
(*   SpecDisplay  the display methods of App (recompute_display, the       *)
(*           selection and filter keys) on bounded article lists.          *)
(*                                                                         *)
(* App.status_message, App.last_fetch_results and App.tick_count are       *)
(* written for the renderer only and read by nothing modelled here; they   *)
(* are left out of the state.                                              *)
(***************************************************************************)
EXTENDS Integers, Sequences, FiniteSets, TLC

VARIABLES
    now,                 \* the monotonic clock (Instant::now()), seconds
    \* ---- SpecRL: the history of the calls on the record under test
    rlLastOp,            \* "none" | "mark" | "success" | "failure": the last call
    rlOpTime,            \* the time of the last call
    rlN,                 \* failures since the last success (history)
    rlPrevDur,           \* backoff length in force when the last call was made
    \* ---- Spec: App and run_loop
    pc,                  \* position of the consumer loop
    sources,             \* App.sources: Seq of [name, enabled]
    source_fetch_state,  \* App.source_fetch_state: name -> SourceFetchState
    min_fetch_interval,  \* App.min_fetch_interval
    last_refresh,        \* App.last_refresh: Option<Instant>
    is_fetching,         \* App.is_fetching
    should_quit,         \* App.should_quit
    view_mode,           \* App.view_mode
    selected_index,      \* App.selected_index
    display_dirty,       \* App.display_dirty
    db,                  \* the article store: the rows of table articles, by id
    feed_chan,           \* the mpsc channel of FeedMsg (capacity 8)
    runs,                \* the spawned fetch_all_feeds tasks still running
    record_calls,        \* history: record_* calls of the last drained batch
    drained,             \* history: the last drained FeedMsg
    \* ---- the article list and its projection (App, src/app.rs)
    articles,            \* App.articles: Seq of Article
    filter_mode,         \* App.filter_mode
    watchlist,           \* App.watchlist: Seq of ticker strings
    ticker_filter,       \* App.ticker_filter: Option<String>
    search_query,        \* App.search_query
    content_cache,       \* App.content_cache: url -> content
    cached_display,      \* App.cached_display: Seq of DisplayRow
    dispOp,              \* history: was the last call recompute_display, and the
                         \* selected_index it found
    \* ---- the content pipeline (src/feed.rs, spawn_content_fetch)
    content_runs,        \* the spawned fetch_article_content tasks still running
    content_chan,        \* the mpsc channel of ContentMsg (capacity 8)
    content_done,        \* history: the fetch_article_content task that ended last
    \* ---- the source editor (App, src/app.rs) and the configuration file
    input_mode,          \* App.input_mode: [kind, field]
    source_edit,         \* App.source_edit_name, source_edit_url, source_edit_index
    saved_sources,       \* Config.sources of the configuration file
    last_key,            \* history: the key of the last key press (SpecSources,
                         \* SpecState), "none" before the first
    \* ---- the view state across restarts (src/main.rs, src/state.rs)
    theme_name,          \* App.theme_name
    saved_state,         \* the ViewState held by the state file
    theme_arg,           \* args.theme.or(config.theme) of the running process
    \* ---- the content drain of run_loop
    reader_content,      \* App.reader_content: Option<String>
    read_dirty,          \* history: the projection was read while display_dirty
    \* ---- the reader (App, src/app.rs; Db, src/db.rs)
    content_loading,     \* App.content_loading
    failed_content_urls, \* App.failed_content_urls: set of urls
    db_content,          \* column content of table articles: id -> content
    delete_requested     \* history: the source that was selected when the key d
                         \* asked for the confirmation

rlVars == <<rlLastOp, rlOpTime, rlN, rlPrevDur>>
appVars == <<pc, sources, source_fetch_state, min_fetch_interval, last_refresh,
             is_fetching, should_quit, view_mode, selected_index, display_dirty,
             db, feed_chan, runs, record_calls, drained>>
projVars == <<articles, filter_mode, watchlist, ticker_filter, search_query,
              content_cache, cached_display, dispOp>>
contentVars == <<content_runs, content_chan, content_done>>
srcVars == <<input_mode, source_edit, saved_sources>>
stateVars == <<theme_name, saved_state, theme_arg>>
loopVars == <<reader_content, read_dirty>>
readerVars == <<content_loading, failed_content_urls, db_content>>
uiVars == <<contentVars, srcVars, last_key, stateVars, loopVars, readerVars,
           delete_requested>>
\* the part of the projection's input that the consumer loop leaves alone
viewVars == <<filter_mode, watchlist, ticker_filter, search_query, content_cache, dispOp>>
vars == <<now, rlVars, appVars, projVars, uiVars>>

\* ------------------------------------------------------------------ bounds
TimeStep == 60          \* Spec: granularity of the clock
RLStep == 30            \* SpecRL: granularity of the clock
MaxTime == 300          \* Spec: the clock stops advancing here
RLMaxTime == 4200       \* SpecRL: the clock stops advancing here
MaxFailures == 8        \* SpecRL: longest run of consecutive failures
MaxArticles == 3        \* SpecDisplay: longest article list
MaxContentRuns == 2     \* SpecReader: fetch_article_content tasks running at a time
MaxSelected == 3        \* SpecDisplay: largest restored selected_index

\* ------------------------------------------------------- program constants
BackoffBase == 60       \* 60u64 in record_failure
BackoffCapExp == 6      \* .min(6) in record_failure
RefreshInterval == 300  \* App::new: refresh_interval
DefaultMinFetch == 60   \* App::new: min_fetch_interval
ChannelCap == 8         \* mpsc::channel::<FeedMsg>(8)
ArticleLimit == 100     \* reload_articles: db.get_articles(100)
MinSelectorLen == 100   \* extract_article_text: combined.len() > 100
MinParagraphLen == 20   \* extract_article_text: t.len() > 20
MinMetaLen == 50        \* fetch_article_content: desc.len() > 50
ThresholdNum == 7       \* let threshold = 0.7: the numerator of 7/10
ThresholdDen == 10      \* let threshold = 0.7: the denominator of 7/10
TickerLen == 4          \* TICKER_RE: [A-Z]{4}

\* ------------------------------------------------------------- Option<T>
None == [some |-> FALSE, val |-> 0]
Some(v) == [some |-> TRUE, val |-> v]

Min(a, b) == IF a <= b THEN a ELSE b

RECURSIVE Pow2(_)
Pow2(n) == IF n = 0 THEN 1 ELSE 2 * Pow2(n - 1)

\* ------------------------------------------------------------- strings
\* A String is modelled as the sequence of its chars.  The alphabet is ASCII:
\* letters, digits, the space and punctuation.  (For ASCII, str::len, which
\* counts bytes, is the number of chars.)
UpperChars == <<"A","B","C","D","E","F","G","H","I","J","K","L","M","N","O","P","Q","R","S","T","U","V","W","X","Y","Z">>
LowerChars == <<"a","b","c","d","e","f","g","h","i","j","k","l","m","n","o","p","q","r","s","t","u","v","w","x","y","z">>
DigitChars == <<"0","1","2","3","4","5","6","7","8","9">>

Range(seq) == {seq[i] : i \in 1..Len(seq)}

\* the case mappings of the letters, as tables
LowerOf == [c \in Range(UpperChars) |->
               LowerChars[CHOOSE i \in 1..Len(UpperChars) : UpperChars[i] = c]]
UpperOf == [c \in Range(LowerChars) |->
               UpperChars[CHOOSE i \in 1..Len(LowerChars) : LowerChars[i] = c]]
AlphanumericChars == Range(UpperChars) \cup Range(LowerChars) \cup Range(DigitChars)

\* char::to_lowercase / char::to_uppercase
ToLowerChar(c) == IF c \in DOMAIN LowerOf THEN LowerOf[c] ELSE c
ToUpperChar(c) == IF c \in DOMAIN UpperOf THEN UpperOf[c] ELSE c

\* str::to_lowercase / str::to_uppercase
ToLowercase(s) == [i \in 1..Len(s) |-> ToLowerChar(s[i])]
ToUppercase(s) == [i \in 1..Len(s) |-> ToUpperChar(s[i])]

\* char::is_alphanumeric
IsAlphanumeric(c) == c \in AlphanumericChars

\* char::is_whitespace
IsWhitespace(c) == c = " "

\* str::contains(&str): needle occurs in hay as a contiguous substring
Contains(hay, needle) ==
    \E i \in 0..(Len(hay) - Len(needle)) :
        SubSeq(hay, i + 1, i + Len(needle)) = needle

\* str::split_whitespace: the maximal runs of non-whitespace chars, in order
RECURSIVE SplitFrom(_, _, _)
SplitFrom(s, word, acc) ==
    IF s = <<>>
    THEN IF word = <<>> THEN acc ELSE Append(acc, word)
    ELSE IF IsWhitespace(Head(s))
         THEN SplitFrom(Tail(s), <<>>, IF word = <<>> THEN acc ELSE Append(acc, word))
         ELSE SplitFrom(Tail(s), Append(word, Head(s)), acc)

SplitWhitespace(s) == SplitFrom(s, <<>>, <<>>)

\* [&str]::join(" ")
RECURSIVE Join(_)
Join(words) ==
    IF words = <<>> THEN <<>>
    ELSE IF Len(words) = 1 THEN Head(words)
    ELSE Head(words) \o <<" ">> \o Join(Tail(words))

\* normalize_title: the stop words
StopWords ==
    { <<"d","a","n">>,
      <<"d","i">>,
      <<"k","e">>,
      <<"d","a","r","i">>,
      <<"y","a","n","g">>,
      <<"u","n","t","u","k">>,
      <<"d","e","n","g","a","n">>,
      <<"i","n","i">>,
      <<"i","t","u">>,
      <<"t","h","e">>,
      <<"a">>,
      <<"a","n">>,
      <<"i","n">>,
      <<"o","n">>,
      <<"o","f">>,
      <<"t","o">>,
      <<"a","n","d">>,
      <<"f","o","r">>,
      <<"i","s">>,
      <<"a","t">> }

\* mutant: single-character tokens are kept
NormalizeTitleKeepShort(title) ==
    LET lower == ToLowercase(title)
        cleaned == [i \in 1..Len(lower) |->
                       IF IsAlphanumeric(lower[i]) \/ lower[i] = " " THEN lower[i] ELSE " "]
    IN Join(SelectSeq(SplitWhitespace(cleaned), LAMBDA w : w \notin StopWords))

\* normalize_title(title)
NormalizeTitle(title) ==
    LET lower == ToLowercase(title)
        cleaned == [i \in 1..Len(lower) |->
                       IF IsAlphanumeric(lower[i]) \/ lower[i] = " " THEN lower[i] ELSE " "]
    IN Join(SelectSeq(SplitWhitespace(cleaned),
                      LAMBDA w : w \notin StopWords /\ Len(w) > 1))

\* ------------------------------------------------------ extract_tickers
\* regex \w: letters, digits and the underscore
IsWordChar(c) == IsAlphanumeric(c) \/ c = "_"

\* the maximal runs of word chars of a text, in order: a match of \b....\b is
\* one of them
RECURSIVE WordRunsFrom(_, _, _)
WordRunsFrom(text, word, acc) ==
    IF text = <<>>
    THEN IF word = <<>> THEN acc ELSE Append(acc, word)
    ELSE IF IsWordChar(Head(text))
         THEN WordRunsFrom(Tail(text), Append(word, Head(text)), acc)
         ELSE WordRunsFrom(Tail(text), <<>>, IF word = <<>> THEN acc ELSE Append(acc, word))

\* extract_tickers: the words to exclude
TickerExclude ==
    { <<"D","A","R","I">>, <<"Y","A","N","G">>, <<"A","K","A","N">>, <<"B","I","S","A">>,
      <<"J","A","D","I">>, <<"B","A","R","U">>, <<"H","A","R","I">>, <<"J","U","G","A">>,
      <<"O","L","E","H">>, <<"P","A","D","A">>, <<"P","A","R","A">>, <<"L","A","G","I">>,
      <<"B","A","I","K">>, <<"B","A","G","I">>, <<"K","A","T","A">>, <<"S","A","A","T">>,
      <<"T","A","P","I">>, <<"M","A","K","A">>, <<"D","E","M","I">>, <<"A","G","A","R">>,
      <<"B","I","S","A">>, <<"J","I","K","A">>, <<"S","O","A","L">>, <<"T","H","I","S">>,
      <<"T","H","A","T">>, <<"W","I","T","H">>, <<"F","R","O","M">>, <<"H","A","V","E">>,
      <<"B","E","E","N">>, <<"W","I","L","L">>, <<"T","H","E","Y">>, <<"W","H","A","T">>,
      <<"W","H","E","N">>, <<"I","N","T","O">>, <<"T","H","A","N">>, <<"T","H","E","M">>,
      <<"E","A","C","H">>, <<"J","U","S","T">>, <<"O","N","L","Y">>, <<"A","L","S","O">>,
      <<"V","E","R","Y">>, <<"M","O","R","E">>, <<"S","O","M","E">>, <<"O","V","E","R">>,
      <<"S","U","C","H">>, <<"B","A","C","K">>, <<"Y","E","A","R">>, <<"M","O","S","T">> }

\* extract_tickers(text): the matches of \b[A-Z]{4}\b that are not excluded
ExtractTickers(text) ==
    SelectSeq(WordRunsFrom(text, <<>>, <<>>),
              LAMBDA w : /\ Len(w) = TickerLen
                         /\ \A i \in 1..Len(w) : w[i] \in Range(UpperChars)
                         /\ w \notin TickerExclude)

\* ------------------------------------------------------ SourceFetchState
SourceFetchStateNew ==
    [last_fetch |-> None, consecutive_failures |-> 0, backoff_until |-> None]

\* mutant: the interval gate is strict
CanFetchStrict(st, min_interval, t) ==
    IF st.backoff_until.some /\ t < st.backoff_until.val
    THEN FALSE
    ELSE IF st.last_fetch.some
         THEN t - st.last_fetch.val > min_interval
         ELSE TRUE

\* can_fetch(&self, min_interval) read at time t
CanFetch(st, min_interval, t) ==
    IF st.backoff_until.some /\ t < st.backoff_until.val
    THEN FALSE
    ELSE IF st.last_fetch.some
         THEN t - st.last_fetch.val >= min_interval
         ELSE TRUE

\* mutant: the failure count survives a success
RecordSuccessKeepCount(st, t) ==
    [last_fetch |-> Some(t), consecutive_failures |-> st.consecutive_failures,
     backoff_until |-> None]

\* mutant: a success does not stamp last_fetch
RecordSuccessNoStamp(st, t) ==
    [last_fetch |-> st.last_fetch, consecutive_failures |-> 0, backoff_until |-> None]

\* record_success(&mut self) at time t
RecordSuccess(st, t) ==
    [last_fetch |-> Some(t), consecutive_failures |-> 0, backoff_until |-> None]

\* mutant: the exponent is not capped
RecordFailureNoCap(st, t) ==
    LET n == st.consecutive_failures + 1
    IN [last_fetch |-> Some(t),
        consecutive_failures |-> n,
        backoff_until |-> Some(t + BackoffBase * Pow2(n))]

\* mutant: the backoff window starts at the previous attempt
RecordFailureFromLast(st, t) ==
    LET n == st.consecutive_failures + 1
        from == IF st.last_fetch.some THEN st.last_fetch.val ELSE t
    IN [last_fetch |-> Some(t),
        consecutive_failures |-> n,
        backoff_until |-> Some(from + BackoffBase * Pow2(Min(n, BackoffCapExp)))]

\* record_failure(&mut self) at time t
RecordFailure(st, t) ==
    LET n == st.consecutive_failures + 1
        backoff_secs == BackoffBase * Pow2(Min(n, BackoffCapExp))
    IN [last_fetch |-> Some(t),
        consecutive_failures |-> n,
        backoff_until |-> Some(t + backoff_secs)]


\* ------------------------------------------------------------ feeds
\* The documents the remote servers serve (the network collaborator's answer
\* to a successful GET): entries with a title, a link and a publication time;
\* the title may be blank and the link missing.  Both feeds carry the url u3.
RemoteFeed(name) ==
    IF name = "Bisnis.com"
    THEN << [title |-> <<" ","B","B","C","A"," ","n","a","i","k">>, url |-> "u1", published |-> 30],
            [title |-> <<" ">>, url |-> "u2", published |-> 40],
            [title |-> <<"I","H","S","G"," ","t","u","r","u","n">>, url |-> "u3", published |-> 20] >>
    ELSE << [title |-> <<"B","B","C","A"," ","N","a","i","k","!">>, url |-> "u3", published |-> 25],
            [title |-> <<"T","L","K","M">>, url |-> "", published |-> 35] >>

\* What the network does to one retrieval.
Responses == {"ok", "network", "read", "parse"}

\* str::trim
RECURSIVE TrimStart(_)
TrimStart(str) ==
    IF str # <<>> /\ IsWhitespace(Head(str)) THEN TrimStart(Tail(str)) ELSE str

RECURSIVE TrimEnd(_)
TrimEnd(str) ==
    IF str # <<>> /\ IsWhitespace(str[Len(str)])
    THEN TrimEnd(SubSeq(str, 1, Len(str) - 1))
    ELSE str

Trim(str) == TrimEnd(TrimStart(str))

\* fetch_feed: the filter_map over feed.entries.  (Of Article, fetched_at,
\* bookmarked and sentiment are not carried: nothing modelled reads them.)
RECURSIVE ParseEntries(_, _)
ParseEntries(entries, name) ==
    IF entries = <<>> THEN <<>>
    ELSE LET e == Head(entries)
             title == Trim(e.title)
             rest == ParseEntries(Tail(entries), name)
         IN IF title = <<>> \/ e.url = ""
            THEN rest
            ELSE <<[id |-> 0, title |-> title, source |-> name, url |-> e.url,
                    tickers |-> ExtractTickers(title),
                    published_at |-> e.published, read |-> FALSE]>> \o rest

\* fetch_feed(client, source) under the network's response
FetchFeed(source, response) ==
    CASE response = "network" ->
            [ok |-> FALSE, articles |-> <<>>, err |-> <<"Network error for", source.name>>]
      [] response = "read" ->
            [ok |-> FALSE, articles |-> <<>>, err |-> <<"Read error for", source.name>>]
      [] response = "parse" ->
            [ok |-> FALSE, articles |-> <<>>, err |-> <<"Parse error for", source.name>>]
      [] OTHER ->
            [ok |-> TRUE, articles |-> ParseEntries(RemoteFeed(source.name), source.name),
             err |-> <<>>]

Pending == [ok |-> FALSE, articles |-> <<>>, err |-> <<>>]

Names(seq) == [i \in 1..Len(seq) |-> seq[i].name]
NameSet(seq) == {seq[i].name : i \in 1..Len(seq)}

\* fetch_all_feeds, first loop: one spawned retrieval per enabled source of the
\* owned copy.  kind and skipped are history (who issued the run, and which
\* configured sources it left out).
\* mutant: the enabled flag is not looked at
EnabledOfAll(srcs) == srcs

\* .iter().filter(|s| s.enabled)
EnabledOf(srcs) == SelectSeq(srcs, LAMBDA s : s.enabled)

NewRun(srcs, kind) ==
    LET en == EnabledOf(srcs)
    IN [kind |-> kind,
        handles |-> [i \in 1..Len(en) |-> [source |-> en[i], done |-> FALSE, result |-> Pending]],
        results |-> <<>>,
        skipped |-> NameSet(sources) \ NameSet(en)]

\* spawn_fetch(rt, client, sources, tx)
SpawnFetch(srcs, kind) == Append(runs, NewRun(srcs, kind))

\* mutant: the rate limiter is not asked
EligibleSourcesNoGate == EnabledOf(sources)

\* App::eligible_sources
EligibleSources ==
    SelectSeq(EnabledOf(sources),
              LAMBDA s : IF s.name \in DOMAIN source_fetch_state
                         THEN CanFetch(source_fetch_state[s.name], min_fetch_interval, now)
                         ELSE TRUE)

\* source_fetch_state.entry(name).or_insert_with(SourceFetchState::new)
EntryOrInsert(sfs, name) ==
    IF name \in DOMAIN sfs THEN sfs ELSE sfs @@ (name :> SourceFetchStateNew)

\* ------------------------------------------------ App::recompute_display
\* Indices (article_idx, selected_index, the filtered indices) are 0-based as in
\* the source; the article at index idx is arts[idx + 1].
FilterModes == {"All", "Watchlist", "Unread", "Source"}

\* mutant: the empty watchlist is not special-cased
PassesModeNoEmptyCase(a, fm, wl) ==
    CASE fm = "Watchlist" ->
            \/ \E t \in Range(a.tickers) : t \in Range(wl)
            \/ \E w \in Range(wl) : Contains(ToUppercase(a.title), w)
      [] fm = "Unread" -> ~a.read
      [] OTHER -> TRUE

\* recompute_display, first filter: match self.filter_mode
PassesMode(a, fm, wl) ==
    CASE fm = "Watchlist" ->
            IF wl = <<>>
            THEN TRUE
            ELSE \/ \E t \in Range(a.tickers) : t \in Range(wl)
                 \/ \E w \in Range(wl) : Contains(ToUppercase(a.title), w)
      [] fm = "Unread" -> ~a.read
      [] OTHER -> TRUE

\* recompute_display, second filter: self.ticker_filter
PassesTicker(a, tf) ==
    IF tf.some
    THEN \/ \E t \in Range(a.tickers) : t = tf.val
         \/ Contains(ToUppercase(a.title), tf.val)
    ELSE TRUE

\* recompute_display, third filter: self.search_query
PassesSearch(a, sq, cc) ==
    IF sq # <<>>
    THEN LET search_lower == ToLowercase(sq)
         IN \/ Contains(ToLowercase(a.title), search_lower)
            \/ \E t \in Range(a.tickers) : Contains(ToLowercase(t), search_lower)
            \/ IF a.url \in DOMAIN cc
               THEN Contains(ToLowercase(cc[a.url]), search_lower)
               ELSE FALSE
    ELSE TRUE

\* (0..self.articles.len())
AllIndices(arts) == [k \in 1..Len(arts) |-> k - 1]

\* the three .filter() stages, each over the indices the stage before kept
FilterMode(indices, arts, fm, wl) ==
    SelectSeq(indices, LAMBDA i : PassesMode(arts[i + 1], fm, wl))

FilterTicker(indices, arts, tf) ==
    SelectSeq(indices, LAMBDA i : PassesTicker(arts[i + 1], tf))

\* mutant: the stage looks the article up by its position in the stage's input
FilterSearchByPosition(indices, arts, sq, cc) ==
    LET keep == {k \in 1..Len(indices) : PassesSearch(arts[k], sq, cc)}
        pos == SelectSeq([k \in 1..Len(indices) |-> k], LAMBDA k : k \in keep)
    IN [k \in 1..Len(pos) |-> indices[pos[k]]]

FilterSearch(indices, arts, sq, cc) ==
    SelectSeq(indices, LAMBDA i : PassesSearch(arts[i + 1], sq, cc))

\* Step 1: filtered_indices
FilteredIndices(arts, fm, wl, tf, sq, cc) ==
    FilterSearch(FilterTicker(FilterMode(AllIndices(arts), arts, fm, wl), arts, tf),
                 arts, sq, cc)

\* word_sets: HashSet of normalized.split_whitespace()
WordSet(title) == Range(SplitWhitespace(NormalizeTitle(title)))

\* word_sets: the word set of each filtered article, by position
RECURSIVE WordSets(_, _)
WordSets(fi, arts) ==
    IF fi = <<>> THEN <<>>
    ELSE <<WordSet(arts[Head(fi) + 1].title)>> \o WordSets(Tail(fi), arts)

\* mutant: the threshold is excluded
SimilarStrict(wi, wj) ==
    IF wi # {} /\ wj # {}
    THEN LET intersection == Cardinality(wi \cap wj)
             union == Cardinality(wi \cup wj)
         IN union > 0 /\ ThresholdDen * intersection > ThresholdNum * union
    ELSE FALSE

\* the test of the inner loop: both sets non-empty, union > 0.0 and
\* intersection / union >= threshold.  The quotient of two small counts is
\* compared with 0.7 in f64 as the fractions compare: i/u, when it equals 7/10,
\* rounds to the double the literal 0.7 denotes.
Similar(wi, wj) ==
    IF wi # {} /\ wj # {}
    THEN LET intersection == Cardinality(wi \cap wj)
             union == Cardinality(wi \cup wj)
         IN union > 0 /\ ThresholdDen * intersection >= ThresholdNum * union
    ELSE FALSE

\* mutant: a consumed title is folded again
RECURSIVE FoldLaterNoSkip(_, _, _, _, _, _)
FoldLaterNoSkip(i, j, fi, ws, arts, st) ==
    IF j > Len(fi) THEN st
    ELSE IF Similar(ws[i], ws[j])
    THEN FoldLaterNoSkip(i, j + 1, fi, ws, arts,
             [consumed |-> [st.consumed EXCEPT ![j] = TRUE],
              other_sources |-> Append(st.other_sources, arts[fi[j] + 1].source)])
    ELSE FoldLaterNoSkip(i, j + 1, fi, ws, arts, st)

\* the inner loop `for j in (i + 1)..filtered_indices.len()` from position j on
\* (positions of the filtered sequence are 1-based here)
RECURSIVE FoldLater(_, _, _, _, _, _)
FoldLater(i, j, fi, ws, arts, st) ==
    IF j > Len(fi) THEN st
    ELSE IF st.consumed[j] THEN FoldLater(i, j + 1, fi, ws, arts, st)
    ELSE IF Similar(ws[i], ws[j])
    THEN FoldLater(i, j + 1, fi, ws, arts,
             [consumed |-> [st.consumed EXCEPT ![j] = TRUE],
              other_sources |-> Append(st.other_sources, arts[fi[j] + 1].source)])
    ELSE FoldLater(i, j + 1, fi, ws, arts, st)

\* mutant: the row holds the position in the filtered sequence
DisplayRowByPosition(fi, i, other_sources) ==
    [article_idx |-> i - 1, dup_count |-> Len(other_sources),
     other_sources |-> other_sources]

\* DisplayRow { article_idx: filtered_indices[i], dup_count, other_sources }
DisplayRow(fi, i, other_sources) ==
    [article_idx |-> fi[i], dup_count |-> Len(other_sources),
     other_sources |-> other_sources]

\* mutant: the outer loop does not skip the consumed positions
RECURSIVE ClusterFromNoSkip(_, _, _, _, _, _)
ClusterFromNoSkip(i, fi, ws, arts, consumed, result) ==
    IF i > Len(fi) THEN result
    ELSE LET st == FoldLater(i, i + 1, fi, ws, arts,
                             [consumed |-> consumed, other_sources |-> <<>>])
         IN ClusterFromNoSkip(i + 1, fi, ws, arts, st.consumed,
                              Append(result, DisplayRow(fi, i, st.other_sources)))

\* the outer loop `for i in 0..filtered_indices.len()` from position i on
RECURSIVE ClusterFrom(_, _, _, _, _, _)
ClusterFrom(i, fi, ws, arts, consumed, result) ==
    IF i > Len(fi) THEN result
    ELSE IF consumed[i] THEN ClusterFrom(i + 1, fi, ws, arts, consumed, result)
    ELSE LET st == FoldLater(i, i + 1, fi, ws, arts,
                             [consumed |-> consumed, other_sources |-> <<>>])
         IN ClusterFrom(i + 1, fi, ws, arts, st.consumed,
                        Append(result, DisplayRow(fi, i, st.other_sources)))

\* Step 2: deduplicate
Deduplicate(fi, arts) ==
    IF Len(fi) <= 1
    THEN [k \in 1..Len(fi) |->
             [article_idx |-> fi[k], dup_count |-> 0, other_sources |-> <<>>]]
    ELSE LET ws == WordSets(fi, arts)
         IN ClusterFrom(1, fi, ws, arts, [k \in 1..Len(fi) |-> FALSE], <<>>)

\* mutant: an index equal to the length is let through
ClampSelectedOffByOne(sel, len) ==
    IF len = 0 THEN 0
    ELSE IF sel > len THEN len - 1
    ELSE sel

\* "Keep selected_index in bounds"
ClampSelected(sel, len) ==
    IF len = 0 THEN 0
    ELSE IF sel >= len THEN len - 1
    ELSE sel

\* mutant: a selection beyond the rows empties the list
RecomputeDisplayFromSelection(arts, fm, wl, tf, sq, cc, sel) ==
    LET all == Deduplicate(FilteredIndices(arts, fm, wl, tf, sq, cc), arts)
        rows == IF sel < Len(all) THEN all ELSE <<>>
    IN [cached_display |-> rows,
        selected_index |-> ClampSelected(sel, Len(rows))]

\* mutant: the new rows are appended to the cached ones
RecomputeDisplayAppend(arts, fm, wl, tf, sq, cc, sel) ==
    LET rows == cached_display \o Deduplicate(FilteredIndices(arts, fm, wl, tf, sq, cc), arts)
    IN [cached_display |-> rows,
        selected_index |-> ClampSelected(sel, Len(rows))]

\* App::recompute_display: what it leaves in cached_display and selected_index
RecomputeDisplay(arts, fm, wl, tf, sq, cc, sel) ==
    LET rows == Deduplicate(FilteredIndices(arts, fm, wl, tf, sq, cc), arts)
    IN [cached_display |-> rows,
        selected_index |-> ClampSelected(sel, Len(rows))]

\* ------------------------------------------------------------ view state
\* FilterMode::label
FilterModeLabel(m) == CASE m = "All" -> <<"A","l","l">> [] m = "Watchlist" -> <<"W","a","t","c","h","l","i","s","t">> [] m = "Unread" -> <<"U","n","r","e","a","d">> [] m = "Source" -> <<"S","o","u","r","c","e">>

\* FilterMode::as_str
FilterModeAsStr(m) ==
    CASE m = "All" -> <<"a","l","l">>
      [] m = "Watchlist" -> <<"w","a","t","c","h","l","i","s","t">>
      [] m = "Unread" -> <<"u","n","r","e","a","d">>
      [] m = "Source" -> <<"s","o","u","r","c","e">>

\* FilterMode::from_str
FilterModeFromStr(str) ==
    CASE str = <<"w","a","t","c","h","l","i","s","t">> -> "Watchlist"
      [] str = <<"u","n","r","e","a","d">> -> "Unread"
      [] str = <<"s","o","u","r","c","e">> -> "Source"
      [] OTHER -> "All"

ThemeNames == {"Dark", "Light", "Solarized", "Gruvbox"}

\* ThemeName::label
ThemeLabel(t) ==
    CASE t = "Dark" -> <<"D","a","r","k">>
      [] t = "Light" -> <<"L","i","g","h","t">>
      [] t = "Solarized" -> <<"S","o","l","a","r","i","z","e","d">>
      [] t = "Gruvbox" -> <<"G","r","u","v","b","o","x">>

\* ThemeName::from_str
ThemeFromStr(str) ==
    LET lower == ToLowercase(str)
    IN CASE lower = <<"l","i","g","h","t">> -> "Light"
         [] lower = <<"s","o","l","a","r","i","z","e","d">> -> "Solarized"
         [] lower = <<"g","r","u","v","b","o","x">> -> "Gruvbox"
         [] OTHER -> "Dark"

\* ThemeName::next
ThemeNext(t) ==
    CASE t = "Dark" -> "Light"
      [] t = "Light" -> "Solarized"
      [] t = "Solarized" -> "Gruvbox"
      [] t = "Gruvbox" -> "Dark"

\* ViewState::default, which load_state returns when there is no readable file
DefaultViewState ==
    [filter_mode |-> None, search_query |-> None, ticker_filter |-> None,
     theme_name |-> None, selected_index |-> None]

\* the five fields of App that make up the view state
AppView ==
    [filter_mode |-> filter_mode, search_query |-> search_query,
     ticker_filter |-> ticker_filter, theme_name |-> theme_name,
     selected_index |-> selected_index]

\* App::to_view_state
ToViewState(app) ==
    [filter_mode |-> Some(FilterModeAsStr(app.filter_mode)),
     search_query |-> IF app.search_query = <<>> THEN None ELSE Some(app.search_query),
     ticker_filter |-> app.ticker_filter,
     theme_name |-> Some(ToLowercase(ThemeLabel(app.theme_name))),
     selected_index |-> Some(app.selected_index)]

\* App::restore_view_state: the five fields after it
RestoreViewState(app, state) ==
    [filter_mode |-> IF state.filter_mode.some
                     THEN FilterModeFromStr(state.filter_mode.val)
                     ELSE app.filter_mode,
     search_query |-> IF state.search_query.some THEN state.search_query.val
                                                 ELSE app.search_query,
     ticker_filter |-> state.ticker_filter,
     theme_name |-> IF state.theme_name.some THEN ThemeFromStr(state.theme_name.val)
                                             ELSE app.theme_name,
     selected_index |-> IF state.selected_index.some THEN state.selected_index.val
                                                     ELSE app.selected_index]

\* config::resolve: the theme
ResolveTheme(arg) == ThemeFromStr(IF arg.some THEN arg.val ELSE <<"d","a","r","k">>)

\* ------------------------------------------------------------ run_loop
\* db.insert_article for each article of one Ok outcome, in order:
\* INSERT OR IGNORE on the unique url; the row id is the next AUTOINCREMENT
\* value; counts the rows that were new.
RECURSIVE InsertArticles(_, _)
InsertArticles(arts, acc) ==
    IF arts = <<>> THEN acc
    ELSE LET a == Head(arts)
         IN InsertArticles(Tail(arts),
                IF \E i \in 1..Len(acc.db) : acc.db[i].url = a.url
                THEN acc
                ELSE [db |-> Append(acc.db, [a EXCEPT !.id = Len(acc.db) + 1]),
                      inserted |-> acc.inserted + 1])

\* ORDER BY published_at DESC (rows of equal published_at stay in row order)
RECURSIVE InsertByPublished(_, _)
InsertByPublished(row, sorted) ==
    IF sorted = <<>> THEN <<row>>
    ELSE IF Head(sorted).published_at >= row.published_at
         THEN <<Head(sorted)>> \o InsertByPublished(row, Tail(sorted))
         ELSE <<row>> \o sorted

RECURSIVE OrderByPublishedDesc(_)
OrderByPublishedDesc(rows) ==
    IF rows = <<>> THEN <<>>
    ELSE InsertByPublished(rows[Len(rows)],
                           OrderByPublishedDesc(SubSeq(rows, 1, Len(rows) - 1)))

\* LIMIT ?1
Limit(rows, n) == IF Len(rows) <= n THEN rows ELSE SubSeq(rows, 1, n)

\* X LIKE '%%pat%%': pat occurs in X, ASCII letters compared without case
Like(text, pat) == Contains(ToUppercase(text), ToUppercase(pat))

\* tickers LIKE '%%"t%%' on the JSON list of the tickers: one of them starts with t
TickersLike(tickers, t) ==
    \E k \in 1..Len(tickers) :
        /\ Len(t) <= Len(tickers[k])
        /\ ToUppercase(SubSeq(tickers[k], 1, Len(t))) = ToUppercase(t)

\* Db::get_articles
GetArticles(rows, limit) == Limit(OrderByPublishedDesc(rows), limit)

\* Db::get_articles_by_tickers
GetArticlesByTickers(rows, tickers, limit) ==
    IF tickers = <<>> THEN GetArticles(rows, limit)
    ELSE Limit(OrderByPublishedDesc(
                  SelectSeq(rows, LAMBDA row :
                      \E k \in 1..Len(tickers) :
                          \/ TickersLike(row.tickers, tickers[k])
                          \/ Like(ToUppercase(row.title), tickers[k]))),
               limit)

\* Db::get_unread_articles
GetUnreadArticles(rows, limit) ==
    Limit(OrderByPublishedDesc(SelectSeq(rows, LAMBDA row : ~row.read)), limit)

\* reload_articles: what it leaves in app.articles
ReloadArticles(rows, fm, wl) ==
    CASE fm = "Watchlist" -> GetArticlesByTickers(rows, wl, ArticleLimit)
      [] fm = "Unread" -> GetUnreadArticles(rows, ArticleLimit)
      [] OTHER -> GetArticles(rows, ArticleLimit)

\* mutant: only failures are recorded
DrainOneFailuresOnly(r, acc, t) ==
    LET sfs == EntryOrInsert(acc.sfs, r.name)
        ins == InsertArticles(r.result.articles, [db |-> acc.db, inserted |-> 0])
    IN IF r.result.ok
       THEN [sfs |-> sfs, db |-> ins.db, total_new |-> acc.total_new + ins.inserted,
             calls |-> acc.calls]
       ELSE [sfs |-> [sfs EXCEPT ![r.name] = RecordFailure(sfs[r.name], t)],
             db |-> acc.db, total_new |-> acc.total_new,
             calls |-> Append(acc.calls, [name |-> r.name, op |-> "failure"])]

\* run_loop, the body of `for (source_name, result) in msg.results`
\* at time t.  calls is the history of the record_* calls made.
DrainOne(r, acc, t) ==
    LET sfs == EntryOrInsert(acc.sfs, r.name)
        st == IF r.result.ok THEN RecordSuccess(sfs[r.name], t)
                             ELSE RecordFailure(sfs[r.name], t)
        call == [name |-> r.name, op |-> IF r.result.ok THEN "success" ELSE "failure"]
        ins == InsertArticles(r.result.articles, [db |-> acc.db, inserted |-> 0])
    IN [sfs |-> [sfs EXCEPT ![r.name] = st],
        db |-> IF r.result.ok THEN ins.db ELSE acc.db,
        total_new |-> IF r.result.ok THEN acc.total_new + ins.inserted ELSE acc.total_new,
        calls |-> Append(acc.calls, call)]

RECURSIVE DrainResults(_, _, _)
DrainResults(results, acc, t) ==
    IF results = <<>> THEN acc
    ELSE DrainResults(Tail(results), DrainOne(Head(results), acc, t), t)

\* run_loop lines 47-53: every configured source is marked as just fetched
RECURSIVE MarkFetched(_, _, _)
MarkFetched(srcs, sfs, t) ==
    IF srcs = <<>> THEN sfs
    ELSE LET e == EntryOrInsert(sfs, Head(srcs).name)
         IN MarkFetched(Tail(srcs),
                [e EXCEPT ![Head(srcs).name].last_fetch = Some(t)], t)

\* run_loop lines 40-53: load, initial fetch of all sources, mark all fetched
Startup ==
    /\ pc = "start"
    /\ articles' = ReloadArticles(db, filter_mode, watchlist)
    /\ runs' = SpawnFetch(sources, "initial")
    /\ is_fetching' = TRUE
    /\ last_refresh' = Some(now)
    /\ source_fetch_state' = MarkFetched(sources, source_fetch_state, now)
    /\ display_dirty' = TRUE
    /\ pc' = "top"
    /\ UNCHANGED <<now, rlVars, uiVars, viewVars, cached_display, sources, min_fetch_interval,
                   should_quit, view_mode, selected_index, db, feed_chan, record_calls,
                   drained>>

\* loop top: recompute the display cache if dirty, render
LoopTop ==
    /\ pc = "top"
    /\ IF display_dirty
       THEN LET r == RecomputeDisplay(articles, filter_mode, watchlist, ticker_filter,
                                      search_query, content_cache, selected_index)
            IN /\ cached_display' = r.cached_display
               /\ selected_index' = r.selected_index
       ELSE UNCHANGED <<cached_display, selected_index>>
    /\ display_dirty' = FALSE
    /\ pc' = "poll"
    /\ UNCHANGED <<now, rlVars, uiVars, viewVars, articles, sources, source_fetch_state,
                   min_fetch_interval, last_refresh, is_fetching, should_quit, view_mode,
                   db, feed_chan, runs, record_calls, drained>>

\* time passes while the loop waits in event::poll
Tick ==
    /\ pc = "poll"
    /\ now + TimeStep <= MaxTime
    /\ now' = now + TimeStep
    /\ UNCHANGED <<rlVars, uiVars, projVars, appVars>>

\* event::poll timed out, or the event was a resize or other non-key event
PollNoKey ==
    /\ pc = "poll"
    /\ pc' = "drain_feed"
    /\ UNCHANGED <<now, rlVars, uiVars, projVars, sources, source_fetch_state, min_fetch_interval,
                   last_refresh, is_fetching, should_quit, view_mode, selected_index,
                   display_dirty, db, feed_chan, runs, record_calls, drained>>

\* a key event that is not a press: `continue`
PollNonPress ==
    /\ pc = "poll"
    /\ pc' = "top"
    /\ UNCHANGED <<now, rlVars, uiVars, projVars, sources, source_fetch_state, min_fetch_interval,
                   last_refresh, is_fetching, should_quit, view_mode, selected_index,
                   display_dirty, db, feed_chan, runs, record_calls, drained>>

\* mutant: a refresh is started while one is running
ManualRefreshWhileFetching ==
    LET eligible == EligibleSources
    IN IF eligible = <<>>
       THEN UNCHANGED <<runs, is_fetching, last_refresh>>
       ELSE /\ runs' = SpawnFetch(eligible, "manual")
            /\ is_fetching' = TRUE
            /\ last_refresh' = Some(now)

\* handle_feed_key: 'r'
ManualRefresh ==
    IF ~is_fetching
    THEN LET eligible == EligibleSources
         IN IF eligible = <<>>
            THEN UNCHANGED <<runs, is_fetching, last_refresh>>
            ELSE /\ runs' = SpawnFetch(eligible, "manual")
                 /\ is_fetching' = TRUE
                 /\ last_refresh' = Some(now)
    ELSE UNCHANGED <<runs, is_fetching, last_refresh>>

\* handle_feed_key (view_mode Feed): q, r, S
HandleFeedKey(key) ==
    CASE key = "q" ->
            /\ should_quit' = TRUE
            /\ UNCHANGED <<sources, view_mode, selected_index, runs, is_fetching,
                           last_refresh>>
      [] key = "r" ->
            /\ ManualRefresh
            /\ UNCHANGED <<sources, view_mode, selected_index, should_quit>>
      [] key = "S" ->
            /\ view_mode' = "Sources"
            /\ selected_index' = 0
            /\ UNCHANGED <<sources, should_quit, runs, is_fetching, last_refresh>>
      [] OTHER ->
            UNCHANGED <<sources, view_mode, selected_index, should_quit, runs,
                        is_fetching, last_refresh>>

InputNormal == [kind |-> "Normal", field |-> "-"]

NoEdit == [name |-> <<>>, url |-> <<>>, index |-> None]

SaveNothing(srcs) == UNCHANGED saved_sources

\* config::save_sources: the file's source list is replaced by the given one
SaveSources(srcs) == saved_sources' = srcs

\* handle_sources_key (view_mode Sources): Esc, j, k, space, a, e, d.
\* selected_index is 0-based as in the source.
HandleSourcesKey(key) ==
    CASE key = "Esc" ->
            /\ view_mode' = "Feed"
            /\ selected_index' = 0
            /\ UNCHANGED <<sources, srcVars>>
      [] key = "j" ->
            /\ selected_index' =
                  IF selected_index < (IF Len(sources) = 0 THEN 0 ELSE Len(sources) - 1)
                  THEN selected_index + 1 ELSE selected_index
            /\ UNCHANGED <<sources, view_mode, srcVars>>
      [] key = "k" ->
            /\ selected_index' = IF selected_index > 0 THEN selected_index - 1
                                                       ELSE selected_index
            /\ UNCHANGED <<sources, view_mode, srcVars>>
      [] key = "Space" ->
            IF selected_index < Len(sources)
            THEN /\ sources' = [sources EXCEPT ![selected_index + 1].enabled = ~@]
                 /\ SaveSources(sources')
                 /\ UNCHANGED <<view_mode, selected_index, input_mode, source_edit>>
            ELSE UNCHANGED <<sources, view_mode, selected_index, srcVars>>
      [] key = "a" ->
            \* start_add_source
            /\ source_edit' = NoEdit
            /\ input_mode' = [kind |-> "SourceAdd", field |-> "Name"]
            /\ UNCHANGED <<sources, view_mode, selected_index, saved_sources>>
      [] key = "e" ->
            \* start_edit_source
            IF selected_index < Len(sources)
            THEN /\ source_edit' = [name |-> sources[selected_index + 1].name,
                                    url |-> sources[selected_index + 1].url,
                                    index |-> Some(selected_index)]
                 /\ input_mode' = [kind |-> "SourceEdit", field |-> "Name"]
                 /\ UNCHANGED <<sources, view_mode, selected_index, saved_sources>>
            ELSE UNCHANGED <<sources, view_mode, selected_index, srcVars>>
      [] key = "d" ->
            IF selected_index < Len(sources)
            THEN /\ input_mode' = [kind |-> "SourceDelete", field |-> "-"]
                 /\ UNCHANGED <<sources, view_mode, selected_index, source_edit,
                                saved_sources>>
            ELSE UNCHANGED <<sources, view_mode, selected_index, srcVars>>
      [] OTHER ->
            UNCHANGED <<sources, view_mode, selected_index, srcVars>>

\* String::pop
Pop(str) == IF str = <<>> THEN str ELSE SubSeq(str, 1, Len(str) - 1)

\* App::confirm_add_source: the list after it
ConfirmAddSource(srcs, ed) ==
    IF ed.name # <<>> /\ ed.url # <<>>
    THEN Append(srcs, [name |-> ed.name, url |-> ed.url, enabled |-> TRUE])
    ELSE srcs

\* App::confirm_edit_source: the list after it
ConfirmEditSource(srcs, ed) ==
    IF ed.index.some /\ ed.index.val < Len(srcs)
    THEN [srcs EXCEPT ![ed.index.val + 1].name = ed.name,
                      ![ed.index.val + 1].url = ed.url]
    ELSE srcs

\* App::delete_source: the list and the selection after it
DeleteSource(srcs, sel) ==
    IF sel < Len(srcs)
    THEN LET rest == [i \in 1..(Len(srcs) - 1) |->
                         IF i <= sel THEN srcs[i] ELSE srcs[i + 1]]
         IN [sources |-> rest,
             selected_index |-> IF sel >= Len(rest) /\ sel > 0 THEN sel - 1 ELSE sel]
    ELSE [sources |-> srcs, selected_index |-> sel]

SpecialKeys == {"CtrlC", "Esc", "Tab", "Enter", "Backspace", "Space"}

\* handle_source_input_key (input_mode SourceAdd, SourceEdit or SourceDelete)
HandleSourceInputKey(key) ==
    LET is_name == input_mode.field = "Name"
        is_add == input_mode.kind = "SourceAdd"
    IN IF input_mode.kind \in {"SourceAdd", "SourceEdit"}
       THEN CASE key = "Esc" ->
                    /\ input_mode' = InputNormal
                    /\ UNCHANGED <<sources, selected_index, source_edit, saved_sources>>
              [] key = "Tab" ->
                    /\ input_mode' = [input_mode EXCEPT
                                         !.field = IF is_name THEN "Url" ELSE "Name"]
                    /\ UNCHANGED <<sources, selected_index, source_edit, saved_sources>>
              [] key = "Enter" ->
                    IF is_name
                    THEN /\ input_mode' = [input_mode EXCEPT !.field = "Url"]
                         /\ UNCHANGED <<sources, selected_index, source_edit,
                                        saved_sources>>
                    ELSE /\ sources' = IF is_add
                                       THEN ConfirmAddSource(sources, source_edit)
                                       ELSE ConfirmEditSource(sources, source_edit)
                         /\ input_mode' = InputNormal
                         /\ SaveSources(sources')
                         /\ UNCHANGED <<selected_index, source_edit>>
              [] key = "Backspace" ->
                    /\ source_edit' = IF is_name
                                      THEN [source_edit EXCEPT !.name = Pop(@)]
                                      ELSE [source_edit EXCEPT !.url = Pop(@)]
                    /\ UNCHANGED <<sources, selected_index, input_mode, saved_sources>>
              [] key \notin SpecialKeys ->
                    \* KeyCode::Char(c)
                    /\ source_edit' = IF is_name
                                      THEN [source_edit EXCEPT !.name = Append(@, key)]
                                      ELSE [source_edit EXCEPT !.url = Append(@, key)]
                    /\ UNCHANGED <<sources, selected_index, input_mode, saved_sources>>
              [] OTHER ->
                    UNCHANGED <<sources, selected_index, srcVars>>
       ELSE IF key \in {"y", "Y"}
       THEN LET after == DeleteSource(sources, selected_index)
            IN /\ sources' = after.sources
               /\ selected_index' = after.selected_index
               /\ input_mode' = InputNormal
               /\ SaveSources(sources')
               /\ UNCHANGED source_edit
       ELSE /\ input_mode' = InputNormal
            /\ UNCHANGED <<sources, selected_index, source_edit, saved_sources>>

FeedKeys == {"CtrlC", "q", "r", "S"}
SourcesKeys == {"CtrlC", "Esc", "j", "k", "Space"}

\* handle_key / handle_normal_key
HandleKey(key) ==
    IF key = "CtrlC"
    THEN /\ should_quit' = TRUE
         /\ UNCHANGED <<sources, view_mode, selected_index, runs, is_fetching,
                        last_refresh, srcVars, delete_requested>>
    ELSE IF input_mode.kind # "Normal"
    THEN /\ HandleSourceInputKey(key)
         /\ UNCHANGED <<view_mode, should_quit, runs, is_fetching, last_refresh,
                        delete_requested>>
    ELSE IF view_mode = "Feed"
    THEN HandleFeedKey(key) /\ UNCHANGED <<srcVars, delete_requested>>
    ELSE /\ HandleSourcesKey(key)
         /\ delete_requested' = IF key = "d" /\ selected_index < Len(sources)
                                THEN Some(sources[selected_index + 1])
                                ELSE delete_requested
         /\ UNCHANGED <<should_quit, runs, is_fetching, last_refresh>>

\* a key press arrived within the poll
PollKey ==
    /\ pc = "poll"
    /\ \E key \in (IF view_mode = "Feed" THEN FeedKeys ELSE SourcesKeys) : HandleKey(key)
    /\ pc' = "drain_feed"
    /\ UNCHANGED <<now, rlVars, contentVars, last_key, stateVars, loopVars, readerVars, projVars, source_fetch_state, min_fetch_interval, display_dirty,
                   db, feed_chan, record_calls, drained>>

NoMsg == [results |-> <<>>, kind |-> "none", issued |-> <<>>, outcomes |-> <<>>,
          skipped |-> {}]

\* run_loop lines 79-120: one message of `while let Ok(msg) = feed_rx.try_recv()`
DrainFeedMsg ==
    /\ pc = "drain_feed"
    /\ feed_chan # <<>>
    /\ LET msg == Head(feed_chan)
           acc == DrainResults(msg.results,
                      [sfs |-> source_fetch_state, db |-> db, total_new |-> 0,
                       calls |-> <<>>], now)
       IN /\ feed_chan' = Tail(feed_chan)
          /\ is_fetching' = FALSE
          /\ source_fetch_state' = acc.sfs
          /\ db' = acc.db
          /\ articles' = ReloadArticles(acc.db, filter_mode, watchlist)
          /\ display_dirty' = TRUE
          /\ record_calls' = acc.calls
          /\ drained' = msg
    /\ UNCHANGED <<now, rlVars, uiVars, viewVars, cached_display, pc, sources, min_fetch_interval,
                   last_refresh, should_quit, view_mode, selected_index, runs>>

\* try_recv found the queue empty: the while loop ends
\* (the history of the drained batch is forgotten here)
RecvWaits(chan) == FALSE

\* Receiver::try_recv returns Err(TryRecvError::Empty) at once when nothing is
\* queued
TryRecvIsEmpty(chan) == chan = <<>>

\* App::selected_article
SelectedArticle(rows, sel, arts) ==
    IF sel < Len(rows) /\ rows[sel + 1].article_idx < Len(arts)
    THEN Some(arts[rows[sel + 1].article_idx + 1])
    ELSE None

\* the feed queue is empty: the loop leaves the first drain, and the second
\* one too if the content queue is empty
DrainFeedEmpty ==
    /\ pc = "drain_feed"
    /\ TryRecvIsEmpty(feed_chan)
    /\ pc' = IF TryRecvIsEmpty(content_chan) THEN "tail" ELSE "drain_content"
    /\ record_calls' = <<>>
    /\ drained' = NoMsg
    /\ UNCHANGED <<now, rlVars, uiVars, projVars, sources, source_fetch_state, min_fetch_interval,
                   last_refresh, is_fetching, should_quit, view_mode, selected_index,
                   display_dirty, db, feed_chan, runs>>

\* app.articles.iter().find(|a| a.url == url)
FindByUrl(arts, url) ==
    LET hits == {i \in 1..Len(arts) : arts[i].url = url}
    IN IF hits = {} THEN None
       ELSE Some(arts[CHOOSE i \in hits : \A k \in hits : i <= k])

\* Db::save_content: UPDATE articles SET content = ?1 WHERE id = ?2
SaveContent(stored, id, content) == (id :> content) @@ stored

\* run_loop lines 122-139: one message of `while let Ok(msg) =
\* content_rx.try_recv()`: save_content for the first listed article of the
\* url, cache_content if the selected article has the url, else the insert
DrainContentMsg ==
    /\ pc = "drain_content"
    /\ content_chan # <<>>
    /\ LET msg == Head(content_chan)
           found == FindByUrl(articles, msg.url)
           selected == SelectedArticle(cached_display, selected_index, articles)
       IN /\ db_content' = IF found.some
                           THEN SaveContent(db_content, found.val.id, msg.content)
                           ELSE db_content
          /\ content_cache' = (msg.url :> msg.content) @@ content_cache
          /\ IF selected.some /\ selected.val.url = msg.url
             THEN /\ reader_content' = Some(msg.content)
                  /\ content_loading' = FALSE
             ELSE UNCHANGED <<reader_content, content_loading>>
    /\ read_dirty' = (read_dirty \/ display_dirty)
    /\ content_chan' = Tail(content_chan)
    /\ UNCHANGED <<now, rlVars, appVars, srcVars, last_key, stateVars, content_runs,
                   content_done, articles, filter_mode, watchlist, ticker_filter,
                   search_query, cached_display, dispOp, failed_content_urls,
                   delete_requested>>

\* the content queue is empty: the loop leaves the second drain
DrainContentEmpty ==
    /\ pc = "drain_content"
    /\ TryRecvIsEmpty(content_chan)
    /\ pc' = "tail"
    /\ UNCHANGED <<now, rlVars, uiVars, projVars, sources, source_fetch_state,
                   min_fetch_interval, last_refresh, is_fetching, should_quit, view_mode,
                   selected_index, display_dirty, db, feed_chan, runs, record_calls,
                   drained>>

\* run_loop lines 141-144: return; the runtime and the channel are dropped
Quit ==
    /\ pc = "tail"
    /\ should_quit
    /\ saved_state' = ToViewState(AppView)
    /\ pc' = "done"
    /\ runs' = <<>>
    /\ feed_chan' = <<>>
    /\ UNCHANGED <<now, rlVars, contentVars, srcVars, last_key, theme_name, theme_arg, loopVars, readerVars, delete_requested, projVars, sources, source_fetch_state, min_fetch_interval,
                   last_refresh, is_fetching, should_quit, view_mode, selected_index,
                   display_dirty, db, record_calls, drained>>

\* run_loop lines 146-158
AutoRefresh ==
    /\ pc = "tail"
    /\ ~should_quit
    /\ IF last_refresh.some /\ now - last_refresh.val >= RefreshInterval /\ ~is_fetching
       THEN LET eligible == EligibleSources
            IN /\ IF eligible # <<>>
                  THEN /\ runs' = SpawnFetch(eligible, "auto")
                       /\ is_fetching' = TRUE
                  ELSE UNCHANGED <<runs, is_fetching>>
               /\ last_refresh' = Some(now)
       ELSE UNCHANGED <<runs, is_fetching, last_refresh>>
    /\ pc' = "top"
    /\ UNCHANGED <<now, rlVars, uiVars, projVars, sources, source_fetch_state, min_fetch_interval,
                   should_quit, view_mode, selected_index, display_dirty,
                   db, feed_chan, record_calls, drained>>

\* ------------------------------------------------- the spawned fetch tasks
\* The tasks run on the runtime's worker threads.  The loop sees them only
\* through feed_chan, which it reads in the drain alone, and its handlers take
\* no time: a task step taken while the loop is elsewhere is the same step
\* taken during the poll before or after, so the tasks step at pc = "poll".
taskFrame == <<now, rlVars, uiVars, projVars, pc, sources, source_fetch_state, min_fetch_interval,
               last_refresh, is_fetching, should_quit, view_mode, selected_index,
               display_dirty, db, record_calls, drained>>

\* mutant: the retrieval task records its own outcome in the rate limiter
RetrievalCompletesRecords ==
    /\ pc = "poll"
    /\ \E r \in 1..Len(runs) : \E i \in 1..Len(runs[r].handles) : \E resp \in Responses :
          /\ ~runs[r].handles[i].done
          /\ runs' = [runs EXCEPT ![r].handles[i] =
                        [source |-> @.source, done |-> TRUE,
                         result |-> FetchFeed(@.source, resp)]]
          /\ source_fetch_state' =
                DrainOne([name |-> runs[r].handles[i].source.name,
                          result |-> FetchFeed(runs[r].handles[i].source, resp)],
                         [sfs |-> source_fetch_state, db |-> db, total_new |-> 0,
                          calls |-> <<>>], now).sfs
    /\ UNCHANGED <<now, rlVars, uiVars, projVars, pc, sources, min_fetch_interval,
                   last_refresh, is_fetching, should_quit, view_mode, selected_index,
                   display_dirty, db, record_calls, drained, feed_chan>>

\* mutant: a retrieval waits for its answer without a timeout
RetrievalHangs ==
    /\ pc = "poll"
    /\ FALSE
    /\ UNCHANGED vars

\* one spawned retrieval finishes: (name, fetch_feed(..).await)
RetrievalCompletes ==
    /\ pc = "poll"
    /\ \E r \in 1..Len(runs) : \E i \in 1..Len(runs[r].handles) : \E resp \in Responses :
          /\ ~runs[r].handles[i].done
          /\ runs' = [runs EXCEPT ![r].handles[i] =
                        [source |-> @.source, done |-> TRUE,
                         result |-> FetchFeed(@.source, resp)]]
    /\ UNCHANGED <<taskFrame, feed_chan>>

\* fetch_all_feeds, second loop: the handles are joined in spawn order and
\* each (name, result) is pushed; the loop is past a handle only once its
\* retrieval has finished.
\* mutant: the first failed retrieval ends the collection
RECURSIVE JoinAllAbort(_)
JoinAllAbort(handles) ==
    IF handles = <<>> THEN <<>>
    ELSE IF Head(handles).done /\ Head(handles).result.ok
         THEN <<[name |-> Head(handles).source.name, result |-> Head(handles).result]>>
              \o JoinAllAbort(Tail(handles))
         ELSE <<>>

RECURSIVE JoinAll(_)
JoinAll(handles) ==
    IF handles = <<>> THEN <<>>
    ELSE IF Head(handles).done
         THEN <<[name |-> Head(handles).source.name, result |-> Head(handles).result]>>
              \o JoinAll(Tail(handles))
         ELSE <<>>

\* mutant: the batch goes out once the first retrieval has finished
BatchReadyFirst(run) == IF Len(run.handles) = 0 THEN TRUE ELSE run.handles[1].done

\* every handle.await of the second loop has returned
BatchReady(run) == \A i \in 1..Len(run.handles) : run.handles[i].done

\* FeedMsg { results }.  History travelling with it: who issued the run, the
\* names of the retrievals it spawned, how each ended, and the configured
\* sources it left out.
FeedMsg(run) ==
    [results |-> JoinAll(run.handles),
     kind |-> run.kind,
     issued |-> [i \in 1..Len(run.handles) |-> run.handles[i].source.name],
     outcomes |-> [i \in 1..Len(run.handles) |->
                     IF ~run.handles[i].done THEN "pending"
                     ELSE IF run.handles[i].result.ok THEN "success" ELSE "failure"],
     skipped |-> run.skipped]

RemoveAt(seq, r) == [i \in 1..(Len(seq) - 1) |-> IF i < r THEN seq[i] ELSE seq[i + 1]]

\* spawn_fetch: fetch_all_feeds(..).await returns, tx.send(FeedMsg { results }).await,
\* and the task ends
SendBatch ==
    /\ pc = "poll"
    /\ \E r \in 1..Len(runs) :
          /\ BatchReady(runs[r])
          /\ Len(feed_chan) < ChannelCap
          /\ feed_chan' = Append(feed_chan, FeedMsg(runs[r]))
          /\ runs' = RemoveAt(runs, r)
    /\ UNCHANGED taskFrame

\* ------------------------------------------------- the content pipeline
\* A text is known by what the pipeline looks at: its length and whether it
\* starts with "Could not extract".  A served document is known by what the
\* extraction reads of it: per content selector that matches, in the order of
\* the selector list, the joined text of the matched elements; the texts of the
\* <p> elements; the trimmed content attributes of the og:description and
\* description meta elements, in that order.
USER_AGENTS == <<"Chrome/120", "Firefox/121", "Googlebot/2.1">>

Text(head, len) == [head |-> head, len |-> len]

\* "Could not extract article content. Press [o] to open in browser."
Sentinel == Text("Could not extract", 64)

StartsWithCouldNotExtract(t) == t.head = "Could not extract"

\* clean_article_text: blank-line runs collapsed, lines trimmed, trailing blank
\* lines removed; the first line of the joined text was trimmed and non-empty
\* already, so the text starts as before; its length is not read again
CleanArticleText(t) == [head |-> t.head, len |-> t.len]

\* join of the kept paragraphs: starts as the first one does
JoinParagraphs(ps) ==
    Text(ps[1].head, ps[1].len + 2 * (Len(ps) - 1))

\* mutant: a selector's text of exactly the minimum length is taken
RECURSIVE FirstSelectorInclusive(_)
FirstSelectorInclusive(selected) ==
    IF selected = <<>> THEN None
    ELSE IF Head(selected).len >= MinSelectorLen THEN Some(Head(selected))
    ELSE FirstSelectorInclusive(Tail(selected))

\* the selector loop: the first selector whose joined text is longer than 100
RECURSIVE FirstSelector(_)
FirstSelector(selected) ==
    IF selected = <<>> THEN None
    ELSE IF Head(selected).len > MinSelectorLen THEN Some(Head(selected))
    ELSE FirstSelector(Tail(selected))

\* extract_article_text
ExtractArticleText(doc) ==
    LET sel == FirstSelector(doc.selected)
        paragraphs == SelectSeq(doc.paragraphs, LAMBDA t : t.len > MinParagraphLen)
    IN IF sel.some THEN CleanArticleText(sel.val)
       ELSE IF paragraphs # <<>> THEN CleanArticleText(JoinParagraphs(paragraphs))
       ELSE Sentinel

\* mutant: the og:description is taken even when it is empty
ExtractMetaFirst(meta) == IF meta = <<>> THEN None ELSE Some(Head(meta))

\* extract_meta_description: the first non-empty content attribute
RECURSIVE ExtractMetaDescription(_)
ExtractMetaDescription(meta) ==
    IF meta = <<>> THEN None
    ELSE IF Head(meta).len > 0 THEN Some(Head(meta))
    ELSE ExtractMetaDescription(Tail(meta))

\* what the servers may answer to one request: a transport error, a response
\* whose body cannot be read, or a response with a document
Documents ==
    { [name |-> "article",
       selected |-> <<Text("Could not extract", 100), Text("text", 101)>>,
       paragraphs |-> <<>>, meta |-> <<>>],
      [name |-> "paragraphs", selected |-> <<Text("text", 100)>>,
       paragraphs |-> <<Text("text", 20), Text("text", 21), Text("text", 30)>>,
       meta |-> <<>>],
      [name |-> "title only", selected |-> <<>>, paragraphs |-> <<>>, meta |-> <<>>],
      [name |-> "meta", selected |-> <<>>, paragraphs |-> <<Text("text", 20)>>,
       meta |-> <<Text("text", 0), Text("text", 51)>>],
      [name |-> "short meta", selected |-> <<>>, paragraphs |-> <<>>,
       meta |-> <<Text("text", 50), Text("text", 60)>>],
      [name |-> "could not", selected |-> <<Text("Could not extract", 120)>>,
       paragraphs |-> <<>>, meta |-> <<>>],
      [name |-> "could not, meta", selected |-> <<Text("Could not extract", 120)>>,
       paragraphs |-> <<Text("text", 30)>>, meta |-> <<Text("text", 60)>>] }

ContentOutcomes ==
    {[kind |-> "transport error", body |-> None],
     [kind |-> "response", body |-> None]}
    \cup {[kind |-> "response", body |-> Some(doc)] : doc \in Documents}

\* a log entry that is no request carries no outcome
NoOutcome == [kind |-> "none", body |-> None]

Ok(v) == [ok |-> TRUE, val |-> v]
Err(e) == [ok |-> FALSE, val |-> e]

\* mutant: a response that yields no text ends the run with the sentinel
AttemptKeepsSentinel(o, attempt, last_err) ==
    IF o.kind = "response"
    THEN IF o.body.some
         THEN LET content == ExtractArticleText(o.body.val)
                  desc == ExtractMetaDescription(o.body.val.meta)
              IN IF ~StartsWithCouldNotExtract(content)
                 THEN [returned |-> Some(Ok(content)), last_err |-> last_err]
                 ELSE IF desc.some /\ desc.val.len > MinMetaLen
                 THEN [returned |-> Some(Ok(desc.val)), last_err |-> last_err]
                 ELSE [returned |-> Some(Ok(content)), last_err |-> last_err]
         ELSE [returned |-> None, last_err |-> last_err]
    ELSE [returned |-> None,
          last_err |-> [text |-> "Attempt", attempt |-> attempt + 1]]

\* fetch_article_content, the match on the result of one request: what the
\* function returns here, if it does, and last_err afterwards
Attempt(o, attempt, last_err) ==
    IF o.kind = "response"
    THEN IF o.body.some
         THEN LET content == ExtractArticleText(o.body.val)
                  desc == ExtractMetaDescription(o.body.val.meta)
              IN IF ~StartsWithCouldNotExtract(content)
                 THEN [returned |-> Some(Ok(content)), last_err |-> last_err]
                 ELSE IF desc.some /\ desc.val.len > MinMetaLen
                 THEN [returned |-> Some(Ok(desc.val)), last_err |-> last_err]
                 ELSE [returned |-> None,
                       last_err |-> [text |-> "Content extraction failed", attempt |-> 0]]
         ELSE [returned |-> None, last_err |-> last_err]
    ELSE [returned |-> None,
          last_err |-> [text |-> "Attempt", attempt |-> attempt + 1]]

\* String::new()
NoError == [text |-> "", attempt |-> 0]

\* mutant: the delay is also taken after the last attempt
SleepsAfterAlways(attempt) == TRUE

\* `if attempt < USER_AGENTS.len() - 1`
SleepsAfter(attempt) == attempt < Len(USER_AGENTS) - 1

\* spawn_content_fetch: the task as spawned (attempt is 0-based as in the source)
ContentTask(url) ==
    [url |-> url, pc |-> "request", attempt |-> 0, last_err |-> NoError,
     log |-> <<>>, result |-> None]

SpawnContentFetch(url) == Append(content_runs, ContentTask(url))

\* one turn of the for loop up to its first suspension point or the return:
\* the request with the identity of this attempt, the match on its result
ContentRequest(r) ==
    /\ r \in 1..Len(content_runs)
    /\ content_runs[r].pc = "request"
    /\ \E o \in ContentOutcomes :
          LET task == content_runs[r]
              a == Attempt(o, task.attempt, task.last_err)
              log == Append(task.log, [kind |-> "request",
                                       ua |-> USER_AGENTS[task.attempt + 1],
                                       outcome |-> o])
          IN content_runs' = [content_runs EXCEPT ![r] =
                 IF a.returned.some
                 THEN [task EXCEPT !.pc = "return", !.result = a.returned, !.log = log]
                 ELSE IF SleepsAfter(task.attempt)
                 THEN [task EXCEPT !.pc = "sleep", !.last_err = a.last_err, !.log = log]
                 ELSE IF task.attempt + 1 < Len(USER_AGENTS)
                 THEN [task EXCEPT !.attempt = @ + 1, !.last_err = a.last_err,
                                   !.log = log]
                 ELSE [task EXCEPT !.pc = "return", !.last_err = a.last_err,
                                   !.result = Some(Err(a.last_err)), !.log = log]]
    /\ UNCHANGED <<now, rlVars, appVars, projVars, srcVars, last_key, stateVars, loopVars, readerVars, delete_requested, content_chan, content_done>>

\* tokio::time::sleep(500 ms) is over: the loop goes on with the next identity,
\* or ends with Err(last_err) when there is none
ContentSleep(r) ==
    /\ r \in 1..Len(content_runs)
    /\ content_runs[r].pc = "sleep"
    /\ LET task == content_runs[r]
           log == Append(task.log, [kind |-> "sleep", ua |-> "", outcome |-> NoOutcome])
       IN content_runs' = [content_runs EXCEPT ![r] =
              IF task.attempt + 1 < Len(USER_AGENTS)
              THEN [task EXCEPT !.pc = "request", !.attempt = @ + 1, !.log = log]
              ELSE [task EXCEPT !.pc = "return", !.result = Some(Err(task.last_err)),
                                !.log = log]]
    /\ UNCHANGED <<now, rlVars, appVars, projVars, srcVars, last_key, stateVars, loopVars, readerVars, delete_requested, content_chan, content_done>>

\* the characters of a text: its beginning, which is all that is known of it
Chars(t) ==
    IF StartsWithCouldNotExtract(t) THEN <<"C","o","u","l","d"," ","n","o","t"," ","e","x","t","r","a","c","t">> ELSE <<"t","e","x","t">>

\* the error of fetch_article_content as characters: "Attempt {n} failed: ..",
\* "Content extraction failed", or the empty string
ErrorChars(e) ==
    CASE e.text = "Attempt" ->
            <<"A","t","t","e","m","p","t"," ">> \o <<<<"0","1","2","3">>[e.attempt + 1]>> \o <<" ","f","a","i","l","e","d">>
      [] e.text = "Content extraction failed" -> <<"C","o","n","t","e","n","t"," ","e","x","t","r","a","c","t","i","o","n"," ","f","a","i","l","e","d">>
      [] OTHER -> <<>>

FailedToLoad == <<"F","a","i","l","e","d"," ","t","o"," ","l","o","a","d"," ","a","r","t","i","c","l","e",":"," ">>

\* format!("Failed to load article: {}\n\nPress [o] to open in browser.", e),
\* up to the end of its first line
FailedToLoadArticle(e) == FailedToLoad \o ErrorChars(e)

\* spawn_content_fetch: the message made of what fetch_article_content returned
ContentMsg(task) ==
    [url |-> task.url,
     content |-> IF task.result.val.ok
                 THEN Chars(task.result.val.val)
                 ELSE FailedToLoadArticle(task.result.val.val)]

\* tx.send(ContentMsg { url, content }).await succeeds when the queue has room
ContentSend(r) ==
    /\ r \in 1..Len(content_runs)
    /\ content_runs[r].pc = "return"
    /\ Len(content_chan) < ChannelCap
    /\ content_chan' = Append(content_chan, ContentMsg(content_runs[r]))
    /\ content_done' = content_runs[r]
    /\ content_runs' = RemoveAt(content_runs, r)
    /\ UNCHANGED <<now, rlVars, appVars, projVars, srcVars, last_key, stateVars, loopVars, readerVars, delete_requested>>

\* ------------------------------------------------------- specifications
ConfiguredNames == <<"Bisnis.com", "Kontan">>

NoOp == [name |-> "none", prev_selected |-> 0]

\* App::new: no articles, no projection, FilterMode::All, no filters
NoTask == [url |-> "", pc |-> "none", attempt |-> 0, last_err |-> NoError,
           log |-> <<>>, result |-> None]

\* no content fetch is running, nothing is queued
InitUiVars ==
    /\ content_runs = <<>>
    /\ content_chan = <<>>
    /\ content_done = NoTask
    /\ input_mode = InputNormal
    /\ source_edit = NoEdit
    /\ last_key = "none"
    /\ theme_name = "Dark"
    /\ theme_arg = None
    /\ reader_content = None
    /\ read_dirty = FALSE
    /\ content_loading = FALSE
    /\ failed_content_urls = {}
    /\ db_content = <<>>
    /\ delete_requested = None

InitProjVars ==
    /\ articles = <<>>
    /\ filter_mode = "All"
    /\ watchlist = <<>>
    /\ ticker_filter = None
    /\ search_query = <<>>
    /\ content_cache = <<>>
    /\ cached_display = <<>>
    /\ dispOp = NoOp

InitRLVars ==
    /\ rlLastOp = "none"
    /\ rlOpTime = 0
    /\ rlN = 0
    /\ rlPrevDur = 0

InitApp ==
    /\ pc = "start"
    /\ source_fetch_state = <<>>
    /\ min_fetch_interval = DefaultMinFetch
    /\ last_refresh = None
    /\ is_fetching = FALSE
    /\ should_quit = FALSE
    /\ view_mode = "Feed"
    /\ selected_index = 0
    /\ display_dirty = TRUE
    /\ db = <<>>
    /\ feed_chan = <<>>
    /\ runs = <<>>
    /\ record_calls = <<>>
    /\ drained = NoMsg

Init ==
    /\ now = 0
    /\ InitRLVars
    /\ InitProjVars
    /\ InitUiVars
    /\ InitApp
    /\ \E en \in [1..Len(ConfiguredNames) -> BOOLEAN] :
          sources = [i \in 1..Len(ConfiguredNames) |->
                        [name |-> ConfiguredNames[i], enabled |-> en[i]]]
    /\ saved_sources = sources
    /\ saved_state = DefaultViewState

Next ==
    \/ Startup
    \/ LoopTop
    \/ Tick
    \/ PollNoKey
    \/ PollNonPress
    \/ PollKey
    \/ DrainFeedMsg
    \/ DrainFeedEmpty
    \/ Quit
    \/ AutoRefresh
    \/ RetrievalCompletes
    \/ SendBatch

Spec == Init /\ [][Next]_vars

\* ------------------------------------------------------------ SpecRL
\* One configured source; its record is written as the drain and the startup
\* write it, at arbitrary times and in arbitrary order.
RLName == "Bisnis.com"
MinIntervals == {0, RLStep, DefaultMinFetch, 2 * DefaultMinFetch}

HasRecord == RLName \in DOMAIN source_fetch_state
RLState == source_fetch_state[RLName]

rlFrame == <<uiVars, projVars, pc, sources, min_fetch_interval, last_refresh, is_fetching, should_quit,
             view_mode, selected_index, display_dirty, db, feed_chan, runs,
             record_calls, drained>>

\* run_loop lines 48-53 on the source
RLMarkFetched ==
    /\ rlLastOp = "none"
    /\ source_fetch_state' = MarkFetched(sources, source_fetch_state, now)
    /\ rlLastOp' = "mark"
    /\ rlOpTime' = now
    /\ UNCHANGED <<now, rlN, rlPrevDur, rlFrame>>

\* run_loop lines 86-93 with an Ok outcome of the source
RLRecordSuccess ==
    /\ source_fetch_state' =
          DrainOne([name |-> RLName, result |-> FetchFeed(sources[1], "ok")],
                   [sfs |-> source_fetch_state, db |-> <<>>, total_new |-> 0,
                    calls |-> <<>>], now).sfs
    /\ rlLastOp' = "success"
    /\ rlOpTime' = now
    /\ rlN' = 0
    /\ rlPrevDur' = IF rlLastOp = "failure" THEN RLState.backoff_until.val - rlOpTime
                                            ELSE 0
    /\ UNCHANGED <<now, rlFrame>>

\* run_loop lines 86-93 with an Err outcome of the source
RLRecordFailure ==
    /\ rlN < MaxFailures
    /\ source_fetch_state' =
          DrainOne([name |-> RLName, result |-> FetchFeed(sources[1], "network")],
                   [sfs |-> source_fetch_state, db |-> <<>>, total_new |-> 0,
                    calls |-> <<>>], now).sfs
    /\ rlLastOp' = "failure"
    /\ rlOpTime' = now
    /\ rlN' = rlN + 1
    /\ rlPrevDur' = IF rlLastOp = "failure" THEN RLState.backoff_until.val - rlOpTime
                                            ELSE 0
    /\ UNCHANGED <<now, rlFrame>>

RLTick ==
    /\ \E d \in {RLStep, 20 * RLStep} :
          /\ now + d <= RLMaxTime
          /\ now' = now + d
    /\ UNCHANGED <<rlVars, uiVars, projVars, appVars>>

InitRL ==
    /\ now = 0
    /\ InitRLVars
    /\ InitProjVars
    /\ InitUiVars
    /\ pc = "start"
    /\ source_fetch_state = <<>>
    /\ min_fetch_interval \in MinIntervals
    /\ last_refresh = None
    /\ is_fetching = FALSE
    /\ should_quit = FALSE
    /\ view_mode = "Feed"
    /\ selected_index = 0
    /\ display_dirty = TRUE
    /\ db = <<>>
    /\ feed_chan = <<>>
    /\ runs = <<>>
    /\ record_calls = <<>>
    /\ drained = NoMsg
    /\ sources = <<[name |-> RLName, enabled |-> TRUE]>>
    /\ saved_sources = sources
    /\ saved_state = DefaultViewState

NextRL ==
    \/ RLMarkFetched
    \/ RLRecordSuccess
    \/ RLRecordFailure
    \/ RLTick

SpecRL == InitRL /\ [][NextRL]_vars

\* ------------------------------------------------------------ SpecDisplay
\* The article list and its projection under the App methods that read and
\* write them.  The inputs: article lists drawn from a pool of stored articles
\* (titles the feeds served, tickers as extract_tickers found them; each from a
\* source of its own, so that other_sources tells which articles a row folded),
\* and the view state restore_view_state restored.
ArticlePool ==
    { [title |-> <<"S","a","h","a","m"," ","B","B","C","A"," ","N","a","i","k"," ","5"," ","P","e","r","s","e","n">>,
       source |-> "Bisnis.com", url |-> "u1", tickers |-> <<<<"B","B","C","A">>>>, read |-> FALSE],
      [title |-> <<"S","a","h","a","m"," ","B","B","C","A"," ","M","e","l","o","n","j","a","k"," ","5","%">>,
       source |-> "Kontan", url |-> "u2", tickers |-> <<<<"B","B","C","A">>>>, read |-> FALSE],
      [title |-> <<"k","0"," ","k","1"," ","k","2"," ","k","3"," ","k","4"," ","k","5"," ","k","6"," ","k","7"," ","k","8"," ","k","9">>,
       source |-> "CNBC Indo", url |-> "u3", tickers |-> <<>>, read |-> TRUE],
      [title |-> <<"K","0",","," ","k","1",","," ","k","2",","," ","k","3",","," ","k","4",","," ","k","5"," ","&"," ","k","6">>,
       source |-> "IDNFinancials", url |-> "u4", tickers |-> <<>>, read |-> FALSE],
      [title |-> <<"k","0"," ","k","1"," ","k","2"," ","k","3"," ","k","4"," ","k","5"," ","k","6"," ","x","7"," ","x","8"," ","x","9">>,
       source |-> "Investor.id", url |-> "u5", tickers |-> <<>>, read |-> FALSE] }

ArticleLists ==
    {s \in UNION {[1..n -> ArticlePool] : n \in 0..MaxArticles} :
        \A i, j \in 1..Len(s) : i # j => s[i] # s[j]}

Watchlists == {<<>>, <<<<"B","B","C","A">>>>}
TickerFilters == {None, Some(<<"B","B","C","A">>)}
SearchQueries == {<<>>, <<"N","a","i","k">>}
CachedContent == ("u4" :> <<"H","a","r","g","a"," ","N","A","I","K"," ","l","a","g","i">>)

dispFrame == <<now, rlVars, uiVars, pc, sources, source_fetch_state, min_fetch_interval,
               last_refresh, is_fetching, should_quit, view_mode, db, feed_chan, runs,
               record_calls, drained, articles, watchlist, search_query, content_cache>>

\* app.recompute_display()
Recompute ==
    /\ LET r == RecomputeDisplay(articles, filter_mode, watchlist, ticker_filter,
                                 search_query, content_cache, selected_index)
       IN /\ cached_display' = r.cached_display
          /\ selected_index' = r.selected_index
    /\ display_dirty' = FALSE
    /\ dispOp' = [name |-> "recompute_display", prev_selected |-> selected_index]
    /\ UNCHANGED <<dispFrame, filter_mode, ticker_filter>>

\* app.select_next()
SelectNext ==
    /\ selected_index' =
          IF Len(cached_display) > 0
          THEN Min(selected_index + 1, Len(cached_display) - 1)
          ELSE selected_index
    /\ dispOp' = NoOp
    /\ UNCHANGED <<dispFrame, filter_mode, ticker_filter, cached_display, display_dirty>>

\* app.select_prev()
SelectPrev ==
    /\ selected_index' = IF selected_index > 0 THEN selected_index - 1 ELSE selected_index
    /\ dispOp' = NoOp
    /\ UNCHANGED <<dispFrame, filter_mode, ticker_filter, cached_display, display_dirty>>

\* app.select_first()
SelectFirst ==
    /\ selected_index' = 0
    /\ dispOp' = NoOp
    /\ UNCHANGED <<dispFrame, filter_mode, ticker_filter, cached_display, display_dirty>>

\* app.select_last()
SelectLast ==
    /\ selected_index' =
          IF Len(cached_display) > 0 THEN Len(cached_display) - 1 ELSE selected_index
    /\ dispOp' = NoOp
    /\ UNCHANGED <<dispFrame, filter_mode, ticker_filter, cached_display, display_dirty>>

\* FilterMode::next
FilterModeNext(fm) ==
    CASE fm = "All" -> "Watchlist"
      [] fm = "Watchlist" -> "Unread"
      [] fm = "Unread" -> "Source"
      [] OTHER -> "All"

\* app.cycle_filter()
CycleFilter ==
    /\ filter_mode' = FilterModeNext(filter_mode)
    /\ selected_index' = 0
    /\ display_dirty' = TRUE
    /\ dispOp' = NoOp
    /\ UNCHANGED <<dispFrame, ticker_filter, cached_display>>

\* app.set_ticker_filter(ticker)
SetTickerFilter(ticker) ==
    /\ ticker_filter' = ticker
    /\ selected_index' = 0
    /\ display_dirty' = TRUE
    /\ dispOp' = NoOp
    /\ UNCHANGED <<dispFrame, filter_mode, cached_display>>

\* main: App::new(watchlist, sources), then restore_view_state(saved_state) with
\* whatever the state file held; run_loop: reload_articles
InitDisplay ==
    /\ now = 0
    /\ InitRLVars
    /\ InitApp
    /\ InitUiVars
    /\ sources = [i \in 1..Len(ConfiguredNames) |->
                     [name |-> ConfiguredNames[i], enabled |-> TRUE]]
    /\ saved_sources = sources
    /\ saved_state = DefaultViewState
    /\ articles \in ArticleLists
    /\ filter_mode \in FilterModes
    /\ watchlist \in Watchlists
    /\ ticker_filter \in TickerFilters
    /\ search_query \in SearchQueries
    /\ content_cache = CachedContent
    /\ cached_display = <<>>
    /\ dispOp = NoOp
    /\ selected_index \in 0..MaxSelected

NextDisplay ==
    \/ Recompute
    \/ SelectNext
    \/ SelectPrev
    \/ SelectFirst
    \/ SelectLast
    \/ CycleFilter
    \/ \E ticker \in TickerFilters : SetTickerFilter(ticker)

SpecDisplay == InitDisplay /\ [][NextDisplay]_vars

\* ------------------------------------------------------------ SpecContent
\* One run of the content pipeline: spawn_content_fetch for the url of an
\* article, the task's requests against servers that answer as they please, the
\* message it leaves in the queue.
ContentUrls == {"u1", "u2"}

\* handle_feed_key Enter / open_reader_with_content: spawn_content_fetch(url)
ContentSpawn ==
    /\ content_runs = <<>>
    /\ content_done = NoTask
    /\ \E url \in ContentUrls : content_runs' = SpawnContentFetch(url)
    /\ UNCHANGED <<now, rlVars, appVars, projVars, srcVars, last_key, stateVars, loopVars, readerVars, delete_requested, content_chan, content_done>>

InitContent ==
    /\ now = 0
    /\ InitRLVars
    /\ InitProjVars
    /\ InitUiVars
    /\ InitApp
    /\ sources = [i \in 1..Len(ConfiguredNames) |->
                     [name |-> ConfiguredNames[i], enabled |-> TRUE]]
    /\ saved_sources = sources
    /\ saved_state = DefaultViewState

NextContent ==
    \/ ContentSpawn
    \/ \E r \in 1..Len(content_runs) : ContentRequest(r)
    \/ \E r \in 1..Len(content_runs) : ContentSleep(r)
    \/ \E r \in 1..Len(content_runs) : ContentSend(r)

SpecContent == InitContent /\ [][NextContent]_vars

\* The runtime runs a spawned task whenever it can go on, the client gives up a
\* request after its timeout (15 s), and a sleep ends.
SpecContentFair == SpecContent /\ WF_vars(NextContent)

\* ------------------------------------------------------------ SpecSources
\* The source editor: the Sources view is open and keys are pressed. The list
\* starts with one source; a name is typed from NameChars and a URL from
\* UrlChars, one character into an empty field.
MaxSources == 2

NameChars == {"a", "b"}
UrlChars == {"h"}

\* the keys pressed, by input mode
SourceEditorKeys ==
    IF input_mode.kind = "Normal"
    THEN {"j", "k", "Space", "e", "d"}
         \cup (IF Len(sources) < MaxSources THEN {"a"} ELSE {})
    ELSE IF input_mode.kind = "SourceDelete"
    THEN {"y", "n"}
    ELSE {"Esc", "Tab", "Enter", "Backspace"}
         \cup (IF input_mode.field = "Name" /\ source_edit.name = <<>>
               THEN NameChars ELSE {})
         \cup (IF input_mode.field = "Url" /\ source_edit.url = <<>>
               THEN UrlChars ELSE {})

\* run_loop lines 65-76 with the Sources view open: a key press is handled
SourcesKey ==
    /\ view_mode = "Sources"
    /\ \E key \in SourceEditorKeys :
          /\ HandleKey(key)
          /\ last_key' = key
    /\ UNCHANGED <<now, rlVars, contentVars, stateVars, loopVars, readerVars, projVars, pc,
                   source_fetch_state, min_fetch_interval, display_dirty, db, feed_chan,
                   record_calls, drained>>

\* The loop has recomputed the projection (lines 55-59) before it polls a key.
InitSources ==
    /\ now = 0
    /\ InitRLVars
    /\ InitProjVars
    /\ InitUiVars
    /\ pc = "poll"
    /\ source_fetch_state = <<>>
    /\ min_fetch_interval = DefaultMinFetch
    /\ last_refresh = None
    /\ is_fetching = FALSE
    /\ should_quit = FALSE
    /\ view_mode = "Sources"
    /\ selected_index = 0
    /\ display_dirty = FALSE
    /\ db = <<>>
    /\ feed_chan = <<>>
    /\ runs = <<>>
    /\ record_calls = <<>>
    /\ drained = NoMsg
    /\ sources = <<[name |-> <<"a">>, url |-> <<"h">>, enabled |-> TRUE]>>
    \* the list came from the configuration file, or from FeedSource::defaults
    /\ saved_sources \in {sources, <<>>}
    /\ saved_state = DefaultViewState

NextSources == SourcesKey

SpecSources == InitSources /\ [][NextSources]_vars

\* ------------------------------------------------------------ SpecState
\* The view state across restarts: a process is started on whatever the state
\* file holds, keys change the view, q quits and writes the file, and the next
\* process is started. No article is stored, and the fetch tasks of a process
\* have not come back before it quits.
ThemeArgs == {None, Some(<<"G","R","U","V","B","O","X">>)}

\* a state file as an earlier version or an editor left it
StateFiles ==
    [filter_mode : {None, Some(<<"b","o","g","u","s">>)},
     search_query : {None, Some(<<"N","a","i","k">>)},
     ticker_filter : TickerFilters,
     theme_name : {None},
     selected_index : {None, Some(MaxSelected)}]

\* App::new: the five fields of the view state
NewAppView ==
    [filter_mode |-> "All", search_query |-> <<>>, ticker_filter |-> None,
     theme_name |-> "Dark", selected_index |-> 0]

\* main, lines 66-77: App::new, restore_view_state(load_state()), then the
\* resolved theme is assigned
Main ==
    /\ pc = "done"
    /\ \E arg \in ThemeArgs :
          LET restored == RestoreViewState(NewAppView, saved_state)
          IN /\ filter_mode' = restored.filter_mode
             /\ search_query' = restored.search_query
             /\ ticker_filter' = restored.ticker_filter
             /\ selected_index' = restored.selected_index
             /\ theme_name' = ResolveTheme(arg)
             /\ theme_arg' = arg
    /\ articles' = <<>>
    /\ content_cache' = <<>>
    /\ cached_display' = <<>>
    /\ dispOp' = NoOp
    /\ source_fetch_state' = <<>>
    /\ last_refresh' = None
    /\ is_fetching' = FALSE
    /\ should_quit' = FALSE
    /\ view_mode' = "Feed"
    /\ display_dirty' = TRUE
    /\ input_mode' = InputNormal
    /\ source_edit' = NoEdit
    /\ last_key' = "none"
    /\ reader_content' = None
    /\ read_dirty' = FALSE
    /\ content_loading' = FALSE
    /\ failed_content_urls' = {}
    /\ delete_requested' = None
    /\ feed_chan' = <<>>
    /\ runs' = <<>>
    /\ record_calls' = <<>>
    /\ drained' = NoMsg
    /\ pc' = "start"
    /\ UNCHANGED <<now, rlVars, contentVars, saved_sources, saved_state, sources,
                   watchlist, min_fetch_interval, db, db_content>>

StateKeys == {"f", "t", "c", "q"}

\* handle_key, handle_feed_key: the keys f, t, c, q
FeedViewKey(key) ==
    /\ last_key' = key
    /\ pc' = "drain_feed"
    /\ CASE key = "f" ->
              /\ filter_mode' = FilterModeNext(filter_mode)
              /\ selected_index' = 0
              /\ articles' = ReloadArticles(db, filter_mode', watchlist)
              /\ display_dirty' = TRUE
              /\ UNCHANGED <<ticker_filter, theme_name, should_quit>>
         [] key = "t" ->
              /\ theme_name' = ThemeNext(theme_name)
              /\ UNCHANGED <<filter_mode, selected_index, articles, display_dirty,
                             ticker_filter, should_quit>>
         [] key = "c" ->
              IF ticker_filter.some
              THEN /\ ticker_filter' = None
                   /\ selected_index' = 0
                   /\ display_dirty' = TRUE
                   /\ UNCHANGED <<filter_mode, articles, theme_name, should_quit>>
              ELSE UNCHANGED <<filter_mode, selected_index, articles, display_dirty,
                               ticker_filter, theme_name, should_quit>>
         [] key = "q" ->
              /\ should_quit' = TRUE
              /\ UNCHANGED <<filter_mode, selected_index, articles, display_dirty,
                             ticker_filter, theme_name>>
    /\ UNCHANGED <<now, rlVars, contentVars, srcVars, saved_state, theme_arg, loopVars, readerVars, delete_requested,
                   sources, source_fetch_state, min_fetch_interval, last_refresh, is_fetching,
                   view_mode, db, feed_chan, runs, record_calls, drained, watchlist,
                   search_query, content_cache, cached_display, dispOp>>

\* run_loop lines 65-76: a key press arrived within the poll
StateKey ==
    /\ pc = "poll"
    /\ view_mode = "Feed"
    /\ \E key \in StateKeys : FeedViewKey(key)

\* no process is running; the state file is absent or holds some ViewState
InitState ==
    /\ now = 0
    /\ InitRLVars
    /\ InitProjVars
    /\ InitUiVars
    /\ pc = "done"
    /\ source_fetch_state = <<>>
    /\ min_fetch_interval = DefaultMinFetch
    /\ last_refresh = None
    /\ is_fetching = FALSE
    /\ should_quit = FALSE
    /\ view_mode = "Feed"
    /\ selected_index = 0
    /\ display_dirty = TRUE
    /\ db = <<>>
    /\ feed_chan = <<>>
    /\ runs = <<>>
    /\ record_calls = <<>>
    /\ drained = NoMsg
    /\ sources = [i \in 1..Len(ConfiguredNames) |->
                     [name |-> ConfiguredNames[i], enabled |-> TRUE]]
    /\ saved_sources = sources
    /\ saved_state \in StateFiles \cup {DefaultViewState}

NextState ==
    \/ Main
    \/ Startup
    \/ LoopTop
    \/ StateKey
    \/ DrainFeedEmpty
    \/ AutoRefresh
    \/ Quit

SpecState == InitState /\ [][NextState]_vars

\* ------------------------------------------------------------ SpecLoop
\* The consumer loop with a content fetch in flight: the articles of one feed
\* are stored, Enter has spawned the fetch of the first one's body and Esc has
\* led back to the feed view. The key f or q is pressed, or none is.
LoopRows ==
    InsertArticles(ParseEntries(RemoteFeed("Bisnis.com"), "Bisnis.com"),
                   [db |-> <<>>, inserted |-> 0]).db

InitLoop ==
    /\ now = 0
    /\ InitRLVars
    /\ content_runs = <<ContentTask(LoopRows[1].url)>>
    /\ content_chan = <<>>
    /\ content_done = NoTask
    /\ input_mode = InputNormal
    /\ source_edit = NoEdit
    /\ last_key = "none"
    /\ theme_name = "Dark"
    /\ theme_arg = None
    /\ reader_content = None
    /\ read_dirty = FALSE
    /\ content_loading = FALSE
    /\ failed_content_urls = {}
    /\ db_content = <<>>
    /\ delete_requested = None
    /\ pc = "top"
    /\ source_fetch_state = <<>>
    /\ min_fetch_interval = DefaultMinFetch
    /\ last_refresh = Some(now)
    /\ is_fetching = FALSE
    /\ should_quit = FALSE
    /\ view_mode = "Feed"
    /\ selected_index = 0
    /\ display_dirty = TRUE
    /\ db = LoopRows
    /\ feed_chan = <<>>
    /\ runs = <<>>
    /\ record_calls = <<>>
    /\ drained = NoMsg
    /\ sources = [i \in 1..Len(ConfiguredNames) |->
                     [name |-> ConfiguredNames[i], enabled |-> TRUE]]
    /\ saved_sources = sources
    /\ saved_state = DefaultViewState
    /\ filter_mode = "All"
    /\ watchlist = <<>>
    /\ ticker_filter = None
    /\ search_query = <<>>
    /\ content_cache = <<>>
    /\ articles = ReloadArticles(db, filter_mode, watchlist)
    /\ cached_display = <<>>
    /\ dispOp = NoOp

LoopKeys == {"f", "q"}

\* run_loop lines 65-76: a key press arrived within the poll
LoopKey ==
    /\ pc = "poll"
    /\ view_mode = "Feed"
    /\ \E key \in LoopKeys : FeedViewKey(key)

\* the steps of run_loop after its top
LoopStep ==
    \/ PollNoKey
    \/ LoopKey
    \/ DrainFeedEmpty
    \/ DrainContentMsg
    \/ DrainContentEmpty
    \/ AutoRefresh
    \/ Quit

\* the steps of the spawned fetch_article_content task
ContentStep ==
    \/ \E r \in 1..Len(content_runs) : ContentRequest(r)
    \/ \E r \in 1..Len(content_runs) : ContentSleep(r)
    \/ \E r \in 1..Len(content_runs) : ContentSend(r)

NextLoop == LoopTop \/ LoopStep \/ ContentStep

SpecLoop == InitLoop /\ [][NextLoop]_vars

\* The loop is the code of the main thread: it goes on whenever it can take a
\* step (event::poll returns after POLL_RATE at the latest). Nothing is assumed
\* of the spawned task, which may never get an answer.
\* WF_vars(LoopTop) is written out, ENABLED <<LoopTop>>_vars being pc = "top".
LoopTopFair == []<>(pc # "top") \/ []<><<LoopTop>>_vars

SpecLoopFair == SpecLoop /\ WF_vars(LoopStep) /\ LoopTopFair

\* ------------------------------------------------------------ SpecReader
\* The feed view and the reader over the stored articles of one feed: Enter
\* opens the selected article, n and p step through the articles in the reader,
\* Esc leaves it, j moves the selection, a search is entered; the bodies come
\* from the in-memory cache, the store, or a spawned fetch.

\* Db::mark_read: UPDATE articles SET read = 1 WHERE id = ?1
MarkRead(rows, id) ==
    [i \in 1..Len(rows) |-> IF rows[i].id = id THEN [rows[i] EXCEPT !.read = TRUE]
                                                 ELSE rows[i]]

\* mutant: the store is not asked
GetContentNone(stored, id) == None

\* Db::get_content: SELECT content FROM articles WHERE id = ?1
GetContent(stored, id) == IF id \in DOMAIN stored THEN Some(stored[id]) ELSE None

\* handle_feed_key Enter (lines 294-311) and open_reader_with_content, which
\* are the same code: mark_read, App::enter_reader, the store, the fetch,
\* reload_articles; sel is the selected index
OpenReaderWithContent(sel) ==
    LET article == SelectedArticle(cached_display, sel, articles)
    IN IF article.some
       THEN LET url == article.val.url
                stored == GetContent(db_content, article.val.id)
            IN /\ db' = MarkRead(db, article.val.id)
               /\ view_mode' = "Reader"
               /\ IF url \in DOMAIN content_cache
                  THEN /\ reader_content' = Some(content_cache[url])
                       /\ content_loading' = FALSE
                       /\ UNCHANGED <<content_cache, content_runs>>
                  ELSE IF stored.some
                  THEN /\ content_cache' = (url :> stored.val) @@ content_cache
                       /\ reader_content' = Some(stored.val)
                       /\ content_loading' = FALSE
                       /\ UNCHANGED content_runs
                  ELSE IF url \notin failed_content_urls
                  THEN /\ content_runs' = SpawnContentFetch(url)
                       /\ reader_content' = None
                       /\ content_loading' = TRUE
                       /\ UNCHANGED content_cache
                  ELSE /\ reader_content' = None
                       /\ content_loading' = FALSE
                       /\ UNCHANGED <<content_cache, content_runs>>
               /\ articles' = ReloadArticles(db', filter_mode, watchlist)
               /\ display_dirty' = TRUE
       ELSE UNCHANGED <<db, view_mode, reader_content, content_loading, content_cache,
                        content_runs, articles, display_dirty>>

\* what is typed into the search prompt before Enter
SearchInputs == {<<>>, <<"t","e","x","t">>}

\* handle_key: Enter and j in the feed view, n, p and Esc in the reader,
\* Enter in the search prompt (key "/": the prompt was opened and buf typed)
ReaderViewKey(key) ==
    /\ pc' = "drain_feed"
    /\ CASE key = "Enter" ->
              /\ OpenReaderWithContent(selected_index)
              /\ UNCHANGED <<selected_index, search_query>>
         [] key = "j" ->
              /\ selected_index' = IF Len(cached_display) > 0
                                   THEN Min(selected_index + 1, Len(cached_display) - 1)
                                   ELSE selected_index
              /\ UNCHANGED <<db, view_mode, reader_content, content_loading,
                             content_cache, content_runs, articles, display_dirty,
                             search_query>>
         [] key = "n" ->
              /\ selected_index' = IF Len(cached_display) > 0
                                   THEN Min(selected_index + 1, Len(cached_display) - 1)
                                   ELSE selected_index
              /\ OpenReaderWithContent(selected_index')
              /\ UNCHANGED search_query
         [] key = "p" ->
              /\ selected_index' = IF selected_index > 0 THEN selected_index - 1
                                   ELSE selected_index
              /\ OpenReaderWithContent(selected_index')
              /\ UNCHANGED search_query
         [] key = "Esc" ->
              /\ view_mode' = "Feed"
              /\ reader_content' = None
              /\ articles' = ReloadArticles(db, filter_mode, watchlist)
              /\ display_dirty' = TRUE
              /\ UNCHANGED <<db, selected_index, content_loading, content_cache,
                             content_runs, search_query>>
         [] key = "/" ->
              /\ \E buf \in SearchInputs : search_query' = buf
              /\ selected_index' = 0
              /\ display_dirty' = TRUE
              /\ UNCHANGED <<db, view_mode, reader_content, content_loading,
                             content_cache, content_runs, articles>>
    /\ UNCHANGED <<now, rlVars, srcVars, last_key, stateVars, read_dirty,
                   failed_content_urls, db_content, delete_requested, content_chan, content_done, sources, source_fetch_state,
                   min_fetch_interval, last_refresh, is_fetching, should_quit, feed_chan,
                   runs, record_calls, drained, filter_mode, watchlist, ticker_filter,
                   cached_display, dispOp>>

\* run_loop lines 65-76: a key press arrived within the poll, while fewer than
\* MaxContentRuns fetch tasks of earlier key presses are running
ReaderKey ==
    /\ pc = "poll"
    /\ Len(content_runs) < MaxContentRuns
    /\ \E key \in (IF view_mode = "Feed" THEN {"Enter", "j", "/"} ELSE {"n", "p", "Esc"}) :
          ReaderViewKey(key)

\* fetch_article_content run to its end: the for loop over the identities from
\* attempt on, against the answers that the requests get
RECURSIVE FetchArticleContent(_, _, _)
FetchArticleContent(outcomes, attempt, last_err) ==
    IF attempt >= Len(USER_AGENTS) THEN Err(last_err)
    ELSE LET a == Attempt(outcomes[attempt + 1], attempt, last_err)
         IN IF a.returned.some THEN a.returned.val
            ELSE FetchArticleContent(outcomes, attempt + 1, a.last_err)

\* what fetch_article_content returns, for all answers to its requests
ContentResults ==
    {FetchArticleContent(outcomes, 0, NoError) :
        outcomes \in [1..Len(USER_AGENTS) -> ContentOutcomes]}

\* the spawned task of spawn_content_fetch from its start to its end, taken
\* during the poll: the loop sees the task through the queue only. (No
\* history of the task is kept here.)
ContentRun ==
    /\ pc = "poll"
    /\ Len(content_chan) < ChannelCap
    /\ \E r \in 1..Len(content_runs) :
          \E result \in ContentResults :
             LET task == [content_runs[r] EXCEPT !.pc = "return", !.result = Some(result)]
             IN /\ content_chan' = Append(content_chan, ContentMsg(task))
                /\ content_runs' = RemoveAt(content_runs, r)
    /\ UNCHANGED <<now, rlVars, appVars, projVars, srcVars, last_key, stateVars, loopVars,
                   readerVars, delete_requested, content_done>>

\* the process has started with the articles of one feed stored, all unread,
\* and with or without the body of the second one stored by an earlier process
InitReader ==
    /\ now = 0
    /\ InitRLVars
    /\ content_runs = <<>>
    /\ content_chan = <<>>
    /\ content_done = NoTask
    /\ input_mode = InputNormal
    /\ source_edit = NoEdit
    /\ last_key = "none"
    /\ theme_name = "Dark"
    /\ theme_arg = None
    /\ reader_content = None
    /\ read_dirty = FALSE
    /\ content_loading = FALSE
    /\ failed_content_urls = {}
    /\ delete_requested = None
    /\ db_content \in {<<>>, (LoopRows[2].id :> <<"t","e","x","t">>)}
    /\ pc = "top"
    /\ source_fetch_state = <<>>
    /\ min_fetch_interval = DefaultMinFetch
    /\ last_refresh = Some(now)
    /\ is_fetching = FALSE
    /\ should_quit = FALSE
    /\ view_mode = "Feed"
    /\ selected_index = 0
    /\ display_dirty = TRUE
    /\ db = LoopRows
    /\ feed_chan = <<>>
    /\ runs = <<>>
    /\ record_calls = <<>>
    /\ drained = NoMsg
    /\ sources = [i \in 1..Len(ConfiguredNames) |->
                     [name |-> ConfiguredNames[i], enabled |-> TRUE]]
    /\ saved_sources = sources
    /\ saved_state = DefaultViewState
    /\ filter_mode \in {"All", "Unread"}
    /\ watchlist = <<>>
    /\ ticker_filter = None
    /\ search_query = <<>>
    /\ content_cache = <<>>
    /\ articles = ReloadArticles(db, filter_mode, watchlist)
    /\ cached_display = <<>>
    /\ dispOp = NoOp

\* the steps of run_loop after its top
ReaderStep ==
    \/ PollNoKey
    \/ ReaderKey
    \/ DrainFeedEmpty
    \/ DrainContentMsg
    \/ DrainContentEmpty
    \/ AutoRefresh

NextReader == LoopTop \/ ReaderStep \/ ContentRun

SpecReader == InitReader /\ [][NextReader]_vars

\* The loop goes on as in SpecLoopFair; the runtime runs the spawned task
\* whenever it can go on, and every request ends, by its timeout at the latest.
\* The task is seen at the poll, to which the loop returns again and again,
\* hence the strong fairness.
SpecReaderFair == SpecReader /\ WF_vars(ReaderStep) /\ LoopTopFair /\ SF_vars(ContentRun)

\* ------------------------------------------------------------ SpecFetch
\* The fetch runs alone: the startup run, the runs of the key r and of the
\* auto-refresh, their retrievals under every response, the drain. No other
\* key is pressed.

\* run_loop lines 65-76: the key r arrived within the poll
RefreshKey ==
    /\ pc = "poll"
    /\ HandleKey("r")
    /\ pc' = "drain_feed"
    /\ UNCHANGED <<now, rlVars, contentVars, last_key, stateVars, loopVars, readerVars,
                   projVars, source_fetch_state, min_fetch_interval, display_dirty,
                   db, feed_chan, record_calls, drained>>

\* the steps of run_loop before and after its top
FetchLoopStep ==
    \/ Startup
    \/ PollNoKey
    \/ RefreshKey
    \/ DrainFeedMsg
    \/ DrainFeedEmpty
    \/ AutoRefresh

NextFetch ==
    \/ LoopTop
    \/ Tick
    \/ FetchLoopStep
    \/ RetrievalCompletes
    \/ SendBatch

SpecFetch == Init /\ [][NextFetch]_vars

\* The loop goes on as in SpecLoopFair. A spawned retrieval ends, by the
\* client's timeout (15 s) at the latest, and the batch is sent when the queue
\* has room; the tasks are seen at the poll, to which the loop returns again
\* and again, hence the strong fairness.
SpecFetchFair ==
    /\ SpecFetch
    /\ WF_vars(FetchLoopStep)
    /\ LoopTopFair
    /\ SF_vars(RetrievalCompletes)
    /\ SF_vars(SendBatch)

\* ------------------------------------------------------------ SpecDelete
\* A source is deleted while the loop works: the startup run is out, the
\* Sources view is opened with S, the selection is moved with j and k, d asks
\* for the confirmation, y confirms and any other key cancels; meanwhile the
\* retrievals end and their batch is drained.
DeleteKeys ==
    IF input_mode.kind = "SourceDelete" THEN {"y", "n"}
    ELSE IF view_mode = "Feed" THEN {"S"}
    ELSE {"j", "k", "d"}

\* run_loop lines 65-76: a key press arrived within the poll
DeleteKey ==
    /\ pc = "poll"
    /\ \E key \in DeleteKeys : HandleKey(key)
    /\ pc' = "drain_feed"
    /\ UNCHANGED <<now, rlVars, contentVars, last_key, stateVars, loopVars, readerVars,
                   projVars, source_fetch_state, min_fetch_interval, display_dirty,
                   db, feed_chan, record_calls, drained>>

NextDelete ==
    \/ Startup
    \/ LoopTop
    \/ PollNoKey
    \/ DeleteKey
    \/ DrainFeedMsg
    \/ DrainFeedEmpty
    \/ AutoRefresh
    \/ RetrievalCompletes
    \/ SendBatch

SpecDelete == Init /\ [][NextDelete]_vars

\* ------------------------------------------------------------ claims
\* The gate as section 4.1 words it.
GateOpen(st, mi, t) ==
    IF st.backoff_until.some /\ t < st.backoff_until.val THEN FALSE
    ELSE IF st.last_fetch.some /\ t - st.last_fetch.val < mi THEN FALSE
    ELSE TRUE

\* C1: can_fetch is false while the current time is before backoff_until;
\* otherwise false while now - last_fetch < min_interval; otherwise true.  A
\* source without a record, or with a record that has neither last_fetch nor
\* backoff, is eligible.
C1_CanFetchGate ==
    /\ \A mi \in MinIntervals : CanFetch(SourceFetchStateNew, mi, now)
    /\ ~HasRecord => EligibleSources = sources
    /\ HasRecord =>
          /\ \A mi \in MinIntervals :
                CanFetch(RLState, mi, now) = GateOpen(RLState, mi, now)
          /\ (EligibleSources = sources) = GateOpen(RLState, min_fetch_interval, now)
          /\ (EligibleSources = <<>>) = ~GateOpen(RLState, min_fetch_interval, now)

\* C1 witness: the record's last attempt is exactly min_interval old and no
\* backoff is in force, so the interval gate alone decides (and opens).
C1_Witness ==
    /\ HasRecord
    /\ rlLastOp = "success"
    /\ min_fetch_interval > 0
    /\ now - RLState.last_fetch.val = min_fetch_interval
    /\ EligibleSources = sources

\* The backoff the n-th consecutive failure sets, in seconds.
BackoffSecs(n) == 60 * Pow2(IF n < 6 THEN n ELSE 6)

\* C2: the n-th consecutive failure sets backoff_until to now + 60s * 2^min(n,6):
\* 120s, 240s, 480s, ... and 3840s from the 6th failure on; the backoff never
\* exceeds 3840s and never decreases while failures continue.
C2_BackoffSequence ==
    rlLastOp = "failure" =>
        LET dur == RLState.backoff_until.val - rlOpTime
        IN /\ RLState.backoff_until.some
           /\ dur = BackoffSecs(rlN)
           /\ rlN = 1 => dur = 120
           /\ rlN = 2 => dur = 240
           /\ rlN = 3 => dur = 480
           /\ rlN >= 6 => dur = 3840
           /\ dur <= 3840
           /\ dur >= rlPrevDur

\* C2 witness: a seventh consecutive failure (past the cap).
C2_Witness ==
    /\ rlLastOp = "failure"
    /\ rlN = 7
    /\ rlPrevDur = 3840

\* C3: right after record_failure can_fetch is false for every min_interval, and
\* it stays false at every later time before backoff_until.
C3_FailureBlocks ==
    rlLastOp = "failure" =>
        /\ RLState.backoff_until.some
        /\ RLState.backoff_until.val > rlOpTime
        /\ now < RLState.backoff_until.val =>
              /\ \A mi \in MinIntervals : ~CanFetch(RLState, mi, now)
              /\ EligibleSources = <<>>

\* C3 witness: some time after a failure that followed an earlier attempt, the
\* minimum interval has elapsed and the backoff is still in force.
C3_Witness ==
    /\ rlLastOp = "failure"
    /\ rlOpTime > 0
    /\ now - rlOpTime >= 2 * DefaultMinFetch
    /\ now < RLState.backoff_until.val
    /\ EligibleSources = <<>>

\* C4 as stated: after record_success, can_fetch(min_interval) is true until
\* min_interval elapses again.
C4_Original ==
    (rlLastOp = "success" /\ now - rlOpTime < min_fetch_interval)
        => CanFetch(RLState, min_fetch_interval, now)

\* C4 amended: after record_success, can_fetch(min_interval) is false until
\* min_interval has elapsed since that call and true from then on (until the
\* next record call).
C4_SuccessGate ==
    rlLastOp = "success" =>
        /\ \A mi \in MinIntervals :
              CanFetch(RLState, mi, now) = (now - rlOpTime >= mi)
        /\ (EligibleSources = sources) = (now - rlOpTime >= min_fetch_interval)

\* C4 witness: inside the minimum interval after a success that cleared a backoff.
C4_Witness ==
    /\ rlLastOp = "success"
    /\ rlPrevDur > 0
    /\ now > rlOpTime
    /\ now - rlOpTime < min_fetch_interval
    /\ EligibleSources = <<>>

\* C5: record_success sets last_fetch to the current time, resets
\* consecutive_failures to 0 and clears backoff_until, whatever the state was;
\* the first failure after a success again yields the 120s backoff.
C5_SuccessResets ==
    /\ rlLastOp = "success" =>
          RLState = [last_fetch |-> Some(rlOpTime), consecutive_failures |-> 0,
                     backoff_until |-> None]
    /\ (rlLastOp = "failure" /\ rlN = 1) =>
          RLState.backoff_until = Some(rlOpTime + 120)

\* C5 witness: a success that cleared the backoff of at least two failures.
C5_Witness ==
    /\ rlLastOp = "success"
    /\ rlPrevDur >= 240
    /\ rlOpTime > 0

\* ---- claims on the consumer loop (Spec)

\* A source the rate limiter reports eligible, as section 4.2 words it.
Eligible(src) ==
    \/ src.name \notin DOMAIN source_fetch_state
    \/ GateOpen(source_fetch_state[src.name], min_fetch_interval, now)

\* C6: every retrieval the loop issues (initial, manual, auto) is for a source
\* that is enabled and eligible at the moment the run is issued.
C6_IssuedOnlyEligible ==
    [][Len(runs') = Len(runs) + 1 =>
          LET run == runs'[Len(runs')]
          IN \A i \in 1..Len(run.handles) :
                \E j \in 1..Len(sources) :
                   /\ sources[j].name = run.handles[i].source.name
                   /\ sources[j].enabled
                   /\ Eligible(sources[j])]_vars

\* C6 witness: a manual refresh issued a run that left out an enabled source
\* whose backoff is still in force.
C6_Witness ==
    \E r \in 1..Len(runs) :
       /\ runs[r].kind = "manual"
       /\ \E j \in 1..Len(sources) :
             /\ sources[j].enabled
             /\ sources[j].name \in runs[r].skipped
             /\ sources[j].name \in DOMAIN source_fetch_state
             /\ source_fetch_state[sources[j].name].backoff_until.some
             /\ now < source_fetch_state[sources[j].name].backoff_until.val
             /\ now - source_fetch_state[sources[j].name].last_fetch.val >= min_fetch_interval

\* C7: eligible_sources() is exactly the configured sources that are enabled and
\* pass the gate (or have no record), in configuration order; with every source
\* disabled it is empty whatever the rate-limiter state.
C7_EligibleExact ==
    LET e == EligibleSources
    IN /\ \A i \in 1..Len(sources) :
             (sources[i] \in Range(e)) = (sources[i].enabled /\ Eligible(sources[i]))
       /\ Range(e) \subseteq Range(sources)
       /\ \A a, b \in 1..Len(e) :
             a < b => \E i, j \in 1..Len(sources) :
                         i < j /\ sources[i] = e[a] /\ sources[j] = e[b]
       /\ (\A i \in 1..Len(sources) : ~sources[i].enabled) => e = <<>>

\* C7 witness: every source is disabled while the gate of each is open.
C7_Witness ==
    /\ pc = "poll"
    /\ ~is_fetching
    /\ \A i \in 1..Len(sources) :
          /\ ~sources[i].enabled
          /\ sources[i].name \in DOMAIN source_fetch_state
          /\ source_fetch_state[sources[i].name].consecutive_failures > 0
          /\ Eligible(sources[i])
    /\ EligibleSources = <<>>

\* the number of record_* calls of the last drain made for a name
CallsFor(name) == Cardinality({i \in 1..Len(record_calls) : record_calls[i].name = name})

\* C8: draining a batch calls record_success or record_failure exactly once for
\* each source whose retrieval completed in that run (success -> record_success,
\* failure -> record_failure) and never for a source the run skipped.
C8_RecordOncePerRetrieval ==
    drained.kind # "none" =>
        /\ Len(record_calls) = Len(drained.issued)
        /\ \A i \in 1..Len(drained.issued) :
              /\ CallsFor(drained.issued[i]) = 1
              /\ \E k \in 1..Len(record_calls) :
                    /\ record_calls[k].name = drained.issued[i]
                    /\ record_calls[k].op = drained.outcomes[i]
        /\ \A name \in drained.skipped : CallsFor(name) = 0

\* C8 witness: a drained manual run of one source that succeeded, the other
\* configured source having been skipped.
C8_Witness ==
    /\ drained.kind = "manual"
    /\ drained.skipped # {}
    /\ record_calls # <<>>
    /\ record_calls[1].op = "success"

\* the outcome a source's retrieval has when every retrieval succeeds
AllOkOutcome(name) == FetchFeed([name |-> name, enabled |-> TRUE], "ok")

\* C9: for every combination of per-source success and failure, the batch holds
\* exactly one outcome for each enabled source passed to the orchestrator, and
\* the outcomes of the successful sources are what they are when none fails.
C9_IndependentOutcomes ==
    \A m \in 1..Len(feed_chan) :
        LET msg == feed_chan[m]
        IN /\ Names(msg.results) = msg.issued
           /\ \A i \in 1..Len(msg.issued) :
                 /\ msg.outcomes[i] \in {"success", "failure"}
                 /\ msg.results[i].result.ok = (msg.outcomes[i] = "success")
                 /\ msg.outcomes[i] = "success" =>
                       msg.results[i].result = AllOkOutcome(msg.issued[i])
                 /\ msg.outcomes[i] = "failure" =>
                       msg.results[i].result.err # <<>>

\* C9 witness: a batch whose first source failed and whose second succeeded.
C9_Witness ==
    /\ feed_chan # <<>>
    /\ Len(feed_chan[1].results) = 2
    /\ ~feed_chan[1].results[1].result.ok
    /\ feed_chan[1].results[2].result.ok
    /\ feed_chan[1].results[2].result.articles # <<>>

\* C10: a run's outcomes reach the loop as exactly one message, sent only after
\* every retrieval of the run has completed (a run ends only by sending it, or
\* by the loop's return tearing the runtime down); the loop never sees a
\* partial batch.
C10_SingleWholeBatch ==
    /\ [](\A m \in 1..Len(feed_chan) :
             /\ Len(feed_chan[m].results) = Len(feed_chan[m].issued)
             /\ \A i \in 1..Len(feed_chan[m].outcomes) :
                   feed_chan[m].outcomes[i] # "pending")
    /\ [](drained.kind # "none" => Len(drained.results) = Len(drained.issued))
    /\ [][Len(feed_chan') > Len(feed_chan) =>
             /\ Len(feed_chan') = Len(feed_chan) + 1
             /\ Len(runs') = Len(runs) - 1
             /\ \E r \in 1..Len(runs) :
                   /\ \A i \in 1..Len(runs[r].handles) : runs[r].handles[i].done
                   /\ feed_chan'[Len(feed_chan')].issued =
                         [i \in 1..Len(runs[r].handles) |-> runs[r].handles[i].source.name]
                   /\ runs' = RemoveAt(runs, r)]_vars
    /\ [][Len(runs') < Len(runs) =>
             \/ Len(feed_chan') = Len(feed_chan) + 1
             \/ pc' = "done"]_vars

\* C10 witness: the loop drained a batch of two outcomes in one message.
C10_Witness ==
    /\ drained.kind = "manual"
    /\ Len(drained.results) = 2
    /\ feed_chan = <<>>
    /\ runs = <<>>

\* C11 as stated: no SourceFetchState field is written anywhere but in the
\* consumer loop's drain of a batch.
C11_Original ==
    [][source_fetch_state' # source_fetch_state =>
          /\ pc = "drain_feed"
          /\ feed_chan # <<>>
          /\ feed_chan' = Tail(feed_chan)]_vars

\* the names whose record a step wrote (or created)
Written(old, new) ==
    {name \in DOMAIN new : name \notin DOMAIN old \/ new[name] # old[name]}

\* C11 amended: the rate-limiter records are written by the consumer thread
\* only: once before the loop starts, where every configured source's last_fetch
\* is set to the current time (no other field), and afterwards only in the drain
\* of a batch, for the sources of that batch; a spawned task never writes them.
C11_WritesOnlyByConsumer ==
    [][source_fetch_state' # source_fetch_state =>
          \/ /\ pc = "start"
             /\ source_fetch_state = <<>>
             /\ DOMAIN source_fetch_state' = NameSet(sources)
             /\ \A name \in NameSet(sources) :
                   source_fetch_state'[name] =
                      [last_fetch |-> Some(now), consecutive_failures |-> 0,
                       backoff_until |-> None]
          \/ /\ pc = "drain_feed"
             /\ feed_chan # <<>>
             /\ feed_chan' = Tail(feed_chan)
             /\ runs' = runs
             /\ Written(source_fetch_state, source_fetch_state')
                   \subseteq Range(Names(Head(feed_chan).results))]_vars

\* C11 witness: a record carries the startup mark, another was written by a
\* drain (a failure was recorded), and a spawned run is at work.
C11_Witness ==
    /\ runs # <<>>
    /\ \E i \in 1..Len(runs[1].handles) : runs[1].handles[i].done
    /\ \E a, b \in DOMAIN source_fetch_state :
          /\ source_fetch_state[a] = [last_fetch |-> Some(0), consecutive_failures |-> 0,
                                      backoff_until |-> None]
          /\ source_fetch_state[b].consecutive_failures > 0

\* the retrievals for a source that are in flight: spawned and not yet drained
InFlight(name) ==
    Cardinality({<<r, i>> \in (1..Len(runs)) \X (1..Len(sources)) :
                    /\ i <= Len(runs[r].handles)
                    /\ runs[r].handles[i].source.name = name})
    + Cardinality({<<m, i>> \in (1..Len(feed_chan)) \X (1..Len(sources)) :
                    /\ i <= Len(feed_chan[m].issued)
                    /\ feed_chan[m].issued[i] = name})

\* C12: at no time are two retrievals for the same source in flight: between
\* the issue of a retrieval and the drain of its result no other retrieval for
\* that source is issued.
C12_NoDoubleInFlight ==
    /\ \A i \in 1..Len(sources) : InFlight(sources[i].name) <= 1
    /\ Len(runs) + Len(feed_chan) <= 1
    /\ (runs # <<>> \/ feed_chan # <<>>) => is_fetching

\* C12 witness: the loop can take an 'r' key press while a retrieval is in flight
\* for an enabled source that the rate limiter reports eligible.
C12_Witness ==
    /\ pc = "poll"
    /\ view_mode = "Feed"
    /\ \E i \in 1..Len(sources) :
          /\ InFlight(sources[i].name) = 1
          /\ sources[i] \in Range(EligibleSources)
          /\ ~should_quit

\* ---- claims on the projection (SpecDisplay)
\* the state is the one recompute_display left
Recomputed == dispOp.name = "recompute_display"

\* the article at a 0-based index passes all active filters
Passes(idx) ==
    /\ PassesMode(articles[idx + 1], filter_mode, watchlist)
    /\ PassesTicker(articles[idx + 1], ticker_filter)
    /\ PassesSearch(articles[idx + 1], search_query, content_cache)

\* the filtered sequence: the indices that pass, in original order
FilteredSeq == SelectSeq(AllIndices(articles), Passes)

\* the normalized token set of the title at an index
Tokens(idx) == WordSet(articles[idx + 1].title)

\* Jaccard(A, B) >= 0.7, as fractions: |A n B| / |A u B| >= 7/10
JaccardAtLeastThreshold(A, B) ==
    10 * Cardinality(A \cap B) >= 7 * Cardinality(A \cup B)

\* a row shows or folds the article at idx (every article of the pool has a
\* source of its own)
InRow(row, idx) ==
    \/ row.article_idx = idx
    \/ articles[idx + 1].source \in Range(row.other_sources)

SameRow(a, b) ==
    \E r \in 1..Len(cached_display) :
        InRow(cached_display[r], a) /\ InRow(cached_display[r], b)

IsRepresentative(idx) ==
    \E r \in 1..Len(cached_display) : cached_display[r].article_idx = idx

\* b is in the row whose representative is a
FoldedInto(a, b) ==
    \E r \in 1..Len(cached_display) :
        cached_display[r].article_idx = a /\ InRow(cached_display[r], b)

\* C13 as stated: every pair of filtered titles with non-empty token sets is in
\* the same row if its Jaccard index is >= 0.7 and in different rows if it is
\* below.
C13_Original ==
    Recomputed =>
        \A a, b \in Range(FilteredSeq) :
            (a < b /\ Tokens(a) # {} /\ Tokens(b) # {}) =>
                SameRow(a, b) = JaccardAtLeastThreshold(Tokens(a), Tokens(b))

\* C13 amended: for a pair of filtered titles with non-empty token sets whose
\* first is a representative: with Jaccard >= 0.7 (0.7 included) the second is in
\* the first's row unless an earlier representative took it, and with
\* Jaccard < 0.7 the second is not in the first's row.
C13_PairWithRepresentative ==
    Recomputed =>
        \A a, b \in Range(FilteredSeq) :
            (a < b /\ Tokens(a) # {} /\ Tokens(b) # {} /\ IsRepresentative(a)) =>
                IF JaccardAtLeastThreshold(Tokens(a), Tokens(b))
                THEN \/ FoldedInto(a, b)
                     \/ \E e \in Range(FilteredSeq) : e < a /\ FoldedInto(e, b)
                ELSE ~FoldedInto(a, b)

\* C13 witness: a title is folded into a representative at a Jaccard index of
\* exactly 0.7, and a title below 0.7 stands apart from the same representative.
C13_Witness ==
    /\ Recomputed
    /\ \E a, b, c \in Range(FilteredSeq) :
          /\ a < b /\ a < c
          /\ 10 * Cardinality(Tokens(a) \cap Tokens(b))
                = 7 * Cardinality(Tokens(a) \cup Tokens(b))
          /\ Tokens(a) # {}
          /\ FoldedInto(a, b)
          /\ Tokens(c) # {}
          /\ ~JaccardAtLeastThreshold(Tokens(a), Tokens(c))
          /\ ~SameRow(a, c)

\* two titles the greedy scan takes for equivalent
SimilarTitles(a, b) ==
    /\ Tokens(a) # {}
    /\ Tokens(b) # {}
    /\ JaccardAtLeastThreshold(Tokens(a), Tokens(b))

\* position j of the filtered sequence fs is a representative: no
\* representative before it is similar to it
RECURSIVE IsRepAt(_, _)
IsRepAt(fs, j) ==
    \A i \in 1..(j - 1) : ~(IsRepAt(fs, i) /\ SimilarTitles(fs[i], fs[j]))

\* the position whose cluster position j belongs to: itself, or the smallest
\* similar representative before it
RepAt(fs, j) ==
    IF IsRepAt(fs, j) THEN j
    ELSE CHOOSE i \in 1..(j - 1) :
            /\ IsRepAt(fs, i) /\ SimilarTitles(fs[i], fs[j])
            /\ \A k \in 1..(i - 1) : ~(IsRepAt(fs, k) /\ SimilarTitles(fs[k], fs[j]))

Positions(fs) == [k \in 1..Len(fs) |-> k]

\* the rows of the greedy scan: one per representative, in order, with the
\* sources of the positions folded into it, in order
GreedyRows(fs) ==
    LET reps == SelectSeq(Positions(fs), LAMBDA j : IsRepAt(fs, j))
    IN [k \in 1..Len(reps) |->
          LET members == SelectSeq(Positions(fs),
                                   LAMBDA j : j # reps[k] /\ RepAt(fs, j) = reps[k])
          IN [article_idx |-> fs[reps[k]],
              dup_count |-> Len(members),
              other_sources |-> [m \in 1..Len(members) |->
                                    articles[fs[members[m]] + 1].source]]]

\* C14: the projection is the greedy scan in input order: a position is folded
\* into the smallest earlier representative with Jaccard >= 0.7 and is a
\* representative if there is none; a representative is the earliest member of
\* its cluster, a folded title is no representative, and every filtered title
\* is in exactly one row.
C14_GreedyScan ==
    Recomputed =>
        /\ cached_display = GreedyRows(FilteredSeq)
        /\ \A b \in Range(FilteredSeq) :
              /\ Cardinality({r \in 1..Len(cached_display) : InRow(cached_display[r], b)}) = 1
              /\ \A r \in 1..Len(cached_display) :
                    InRow(cached_display[r], b) => cached_display[r].article_idx <= b

\* C14 witness: a title is folded into the first representative, and a later
\* title similar to the folded one, but not to the representative, opens a row
\* of its own.
C14_Witness ==
    /\ Recomputed
    /\ \E a, b, c \in Range(FilteredSeq) :
          /\ a < b /\ b < c
          /\ FoldedInto(a, b)
          /\ SimilarTitles(b, c)
          /\ ~SimilarTitles(a, c)
          /\ IsRepresentative(c)

\* the two titles of the scenario
TitleNaik == <<"S","a","h","a","m"," ","B","B","C","A"," ","N","a","i","k"," ","5"," ","P","e","r","s","e","n">>
TitleMelonjak == <<"S","a","h","a","m"," ","B","B","C","A"," ","M","e","l","o","n","j","a","k"," ","5","%">>

\* the filtered pairs of articles that carry the two titles
ScenarioPairs ==
    {p \in Range(FilteredSeq) \X Range(FilteredSeq) :
        /\ articles[p[1] + 1].title = TitleNaik
        /\ articles[p[2] + 1].title = TitleMelonjak
        /\ articles[p[1] + 1].source # articles[p[2] + 1].source}

\* C15 as stated: the two articles, both passing the filters, are grouped into
\* one DisplayRow with dup_count 1 whose other_sources lists the second
\* article's source.
C15_Original ==
    (Recomputed /\ Len(articles) = 2 /\ ScenarioPairs # {}) =>
        /\ Len(cached_display) = 1
        /\ cached_display[1].dup_count = 1
        /\ cached_display[1].other_sources = <<articles[2].source>>

\* C15 amended: the two titles normalize to {saham, bbca, naik, persen} and
\* {saham, bbca, melonjak}, Jaccard 2/5 < 0.7, so the two articles, both
\* passing the filters, are not grouped: each has a DisplayRow of its own with
\* dup_count 0 and no other_sources.
C15_ScenarioNotGrouped ==
    /\ WordSet(TitleNaik) = {<<"s","a","h","a","m">>, <<"b","b","c","a">>, <<"n","a","i","k">>, <<"p","e","r","s","e","n">>}
    /\ WordSet(TitleMelonjak) = {<<"s","a","h","a","m">>, <<"b","b","c","a">>, <<"m","e","l","o","n","j","a","k">>}
    /\ Recomputed =>
          \A p \in ScenarioPairs :
             /\ ~SameRow(p[1], p[2])
             /\ Len(articles) = 2 =>
                   cached_display =
                      << [article_idx |-> 0, dup_count |-> 0, other_sources |-> <<>>],
                         [article_idx |-> 1, dup_count |-> 0, other_sources |-> <<>>] >>

\* C15 witness: the article list is the two articles of the scenario, both pass
\* the filters, and the projection has been recomputed.
C15_Witness ==
    /\ Recomputed
    /\ Len(articles) = 2
    /\ ScenarioPairs # {}
    /\ articles[1].title = TitleNaik
    /\ Len(cached_display) = 2

\* C16: after recompute_display every row's article_idx is an index of the
\* article list whose article passes all active filters, and the article_idx
\* values are strictly increasing.
C16_RowsAreFilteredInOrder ==
    Recomputed =>
        \A r \in 1..Len(cached_display) :
            /\ cached_display[r].article_idx \in 0..(Len(articles) - 1)
            /\ Passes(cached_display[r].article_idx)
            /\ r > 1 => cached_display[r - 1].article_idx < cached_display[r].article_idx

\* C16 witness: the first article is filtered out and the two that pass are
\* folded into one row.
C16_Witness ==
    /\ Recomputed
    /\ Len(cached_display) = 1
    /\ cached_display[1].article_idx > 0
    /\ cached_display[1].dup_count > 0
    /\ ~Passes(0)

\* one of the article's tickers equals a watchlist entry, or its uppercased
\* title contains a watchlist entry
WatchlistMatches(idx) ==
    \E w \in Range(watchlist) :
        \/ \E t \in Range(articles[idx + 1].tickers) : t = w
        \/ Contains(ToUppercase(articles[idx + 1].title), w)

\* the article at idx is shown: it is in some row of the projection
Shown(idx) == \E r \in 1..Len(cached_display) : InRow(cached_display[r], idx)

\* C17: in Watchlist mode with an empty watchlist the projection is the
\* projection of All mode for the same articles, ticker filter and search; with
\* a non-empty watchlist an article passes the mode filter exactly when one of
\* its tickers equals a watchlist entry or its uppercased title contains one.
C17_WatchlistFilter ==
    (Recomputed /\ filter_mode = "Watchlist") =>
        IF watchlist = <<>>
        THEN cached_display =
                RecomputeDisplay(articles, "All", watchlist, ticker_filter, search_query,
                                 content_cache, dispOp.prev_selected).cached_display
        ELSE \A idx \in 0..(Len(articles) - 1) :
                Shown(idx) = /\ WatchlistMatches(idx)
                             /\ PassesTicker(articles[idx + 1], ticker_filter)
                             /\ PassesSearch(articles[idx + 1], search_query, content_cache)

\* C17 witness: Watchlist mode with an empty watchlist shows rows.
C17_Witness ==
    /\ Recomputed
    /\ filter_mode = "Watchlist"
    /\ watchlist = <<>>
    /\ Len(cached_display) >= 2
    /\ \E r \in 1..Len(cached_display) : cached_display[r].dup_count > 0

\* C18: recompute_display is idempotent: called again on the state it left, it
\* leaves the same rows and the same selected_index.
C18_Idempotent ==
    Recomputed =>
        RecomputeDisplay(articles, filter_mode, watchlist, ticker_filter, search_query,
                         content_cache, selected_index)
            = [cached_display |-> cached_display, selected_index |-> selected_index]

\* C18 witness: the first call folded a title and moved the selection.
C18_Witness ==
    /\ Recomputed
    /\ dispOp.prev_selected > selected_index
    /\ \E r \in 1..Len(cached_display) : cached_display[r].dup_count > 0

\* C19: restricting by the ticker filter and then by the search filter yields
\* the same set of article indices as restricting by the search filter and then
\* by the ticker filter.
C19_FiltersCommute ==
    LET all == AllIndices(articles)
        ticker_first == FilterSearch(FilterTicker(all, articles, ticker_filter),
                                     articles, search_query, content_cache)
        search_first == FilterTicker(FilterSearch(all, articles, search_query,
                                                  content_cache),
                                     articles, ticker_filter)
    IN /\ Range(ticker_first) = Range(search_first)
       /\ Range(ticker_first) =
             {idx \in Range(all) :
                 /\ PassesTicker(articles[idx + 1], ticker_filter)
                 /\ PassesSearch(articles[idx + 1], search_query, content_cache)}

\* C19 witness: both filters are set and the projection was recomputed; the
\* article that passes both is shown, the one that passes the ticker filter
\* only and the one that passes the search only are not.
C19_Witness ==
    /\ Recomputed
    /\ filter_mode = "All"
    /\ ticker_filter.some
    /\ search_query # <<>>
    /\ \E a, b, c \in 1..Len(articles) :
          /\ Shown(a - 1) /\ ~Shown(b - 1) /\ ~Shown(c - 1)
          /\ PassesTicker(articles[a], ticker_filter)
          /\ PassesSearch(articles[a], search_query, content_cache)
          /\ PassesTicker(articles[b], ticker_filter)
          /\ ~PassesSearch(articles[b], search_query, content_cache)
          /\ ~PassesTicker(articles[c], ticker_filter)
          /\ PassesSearch(articles[c], search_query, content_cache)
          /\ c < a

\* C20: after recompute_display selected_index is 0 if the projection is empty
\* and min(previous selected_index, length - 1) otherwise, so it never indexes
\* past the end, whatever index restore_view_state supplied.
C20_SelectionClamped ==
    Recomputed =>
        /\ selected_index =
              IF Len(cached_display) = 0 THEN 0
              ELSE IF dispOp.prev_selected <= Len(cached_display) - 1
                   THEN dispOp.prev_selected
                   ELSE Len(cached_display) - 1
        /\ cached_display # <<>> => selected_index < Len(cached_display)

\* C20 witness: the index found was one past the last row of a projection of
\* two or more rows.
C20_Witness ==
    /\ Recomputed
    /\ Len(cached_display) >= 2
    /\ dispOp.prev_selected = Len(cached_display)
    /\ selected_index = Len(cached_display) - 1

\* a content cache with no entry
EmptyCache == [u \in {} |-> <<>>]

ContentTasks == Range(content_runs) \cup {content_done}

\* the requests a task has issued, in order
RequestsOf(task) == SelectSeq(task.log, LAMBDA e : e.kind = "request")

\* the server answered with a readable document
GotDocument(o) == o.kind = "response" /\ o.body.some

\* the document holds content: a selector's text of more than 100 characters,
\* else a paragraph of more than 20, that does not begin "Could not extract";
\* or a meta description of more than 50 characters
HoldsContent(doc) ==
    LET sels == SelectSeq(doc.selected, LAMBDA t : t.len > 100)
        pars == SelectSeq(doc.paragraphs, LAMBDA t : t.len > 20)
        metas == SelectSeq(doc.meta, LAMBDA t : t.len > 0)
    IN \/ sels # <<>> /\ sels[1].head # "Could not extract"
       \/ sels = <<>> /\ pars # <<>> /\ pars[1].head # "Could not extract"
       \/ metas # <<>> /\ metas[1].len > 50

YieldsContent(o) == GotDocument(o) /\ HoldsContent(o.body.val)

\* C23, safety: the k-th request is made with the k-th identity, so there are at
\* most 3; the log alternates request, delay, request: a delay is taken only
\* between two attempts; a run that returned did so right after a request, and
\* it returned a failure iff none of its requests yielded content, which takes
\* all three identities.
C23_Bounded ==
    \A task \in ContentTasks :
        LET reqs == RequestsOf(task)
        IN /\ Len(reqs) <= 3
           /\ \A k \in 1..Len(reqs) : reqs[k].ua = USER_AGENTS[k]
           /\ \A i \in 1..Len(task.log) :
                 task.log[i].kind = (IF i % 2 = 1 THEN "request" ELSE "sleep")
           /\ task.pc = "return" =>
                 /\ task.log[Len(task.log)].kind = "request"
                 /\ task.result.some
                 /\ ~task.result.val.ok <=>
                       (\A k \in 1..Len(reqs) : ~YieldsContent(reqs[k].outcome))
                 /\ ~task.result.val.ok => Len(reqs) = 3

\* C23: fetch_article_content always terminates, within these bounds.
C23_Terminates ==
    /\ []C23_Bounded
    /\ (content_runs # <<>>) ~> (content_done # NoTask)

\* C23 witness: a run that used all three identities, with a delay after the
\* first and the second, has returned a failure.
C23_Witness ==
    /\ content_done # NoTask
    /\ ~content_done.result.val.ok
    /\ Len(content_done.log) = 5
    /\ content_done.log[5].outcome.kind = "transport error"

\* every request of the run got a readable document, none of which held content
OnlyEmptyDocuments(task) ==
    /\ task.log # <<>>
    /\ \A e \in Range(RequestsOf(task)) :
          GotDocument(e.outcome) /\ ~HoldsContent(e.outcome.body.val)

\* C24: when the pipeline receives successful HTTP responses but no extraction
\* strategy yields text, it returns the sentinel "could not extract" message as
\* content (Ok), not a failure.
C24_SentinelAsContent ==
    \A task \in ContentTasks :
        (task.pc = "return" /\ OnlyEmptyDocuments(task)) =>
            /\ task.result.val.ok
            /\ StartsWithCouldNotExtract(task.result.val.val)

\* C24, what the code does instead: such a run returns the failure
\* "Content extraction failed", after the third response.
C24_FailureInstead ==
    \A task \in ContentTasks :
        (task.pc = "return" /\ OnlyEmptyDocuments(task)) =>
            /\ ~task.result.val.ok
            /\ task.result.val.val.text = "Content extraction failed"
            /\ Len(RequestsOf(task)) = 3

\* C24 witness: three times the document with only a <title>.
C24_Witness ==
    /\ content_done # NoTask
    /\ Len(RequestsOf(content_done)) = 3
    /\ \A e \in Range(RequestsOf(content_done)) :
          GotDocument(e.outcome) /\ e.outcome.body.val.name = "title only"

SourceOperation ==
    /\ last_key' # last_key \/ sources' # sources \/ input_mode' # input_mode
    /\ \/ input_mode.kind = "Normal" /\ last_key' = "Space"
          /\ selected_index < Len(sources)
       \/ input_mode.kind \in {"SourceAdd", "SourceEdit"} /\ input_mode.field = "Url"
          /\ last_key' = "Enter"
       \/ input_mode.kind = "SourceDelete" /\ last_key' = "y"

C26_DistinctNames ==
    \A i, j \in 1..Len(sources) : i # j => sources[i].name # sources[j].name

\* a second source was added under the name of the first
C26_Witness ==
    /\ Len(sources) = 2
    /\ sources[1].name = sources[2].name
    /\ last_key = "Enter"

\* the application states over which C27 ranges
AppViews ==
    [filter_mode : FilterModes, search_query : SearchQueries,
     ticker_filter : TickerFilters, theme_name : ThemeNames,
     selected_index : 0..MaxSelected]

\* C27 as stated: for any application states A (here the state reached) and B,
\* B.restore_view_state(A.to_view_state()) has the five fields of A.
C27_Original ==
    LET snapshot == ToViewState(AppView)
    IN \A B \in AppViews : RestoreViewState(B, snapshot) = AppView

\* C27, amended: the same whenever the search query of A is not empty or the
\* search query of B is empty.
C27_RoundTrip ==
    LET snapshot == ToViewState(AppView)
    IN \A B \in AppViews :
          (AppView.search_query # <<>> \/ B.search_query = <<>>)
              => RestoreViewState(B, snapshot) = AppView

\* a process runs on a view restored from the file a quit wrote: filter mode,
\* search query, ticker filter and theme all differ from those of App::new
C27_Witness ==
    /\ pc = "poll"
    /\ saved_state.theme_name.some
    /\ filter_mode = "Source"
    /\ search_query # <<>>
    /\ ticker_filter.some
    /\ theme_name = "Gruvbox"
    /\ AppView \in AppViews

\* C28: a process started with no theme on the command line or in the
\* configuration file, on a state file a quit wrote, has the theme that was
\* active at that quit (until a key is pressed).
C28_ThemeSurvivesRestart ==
    (pc \in {"start", "top", "poll"} /\ last_key = "none" /\ theme_arg = None
        /\ saved_state.theme_name.some)
        => theme_name = ThemeFromStr(saved_state.theme_name.val)

\* the process quit with theme Light and the next one, given no theme, runs Dark
C28_Witness ==
    /\ pc = "poll"
    /\ last_key = "none"
    /\ theme_arg = None
    /\ saved_state.theme_name = Some(ToLowercase(ThemeLabel("Light")))
    /\ theme_name = "Dark"

\* C22: the projection is never read while display_dirty is true.
C22_NoReadWhileDirty == ~read_dirty

\* the key f marked the projection dirty and the content drain of the same
\* iteration called selected_article
C22_Witness ==
    /\ read_dirty
    /\ display_dirty
    /\ pc = "drain_content"
    /\ last_key = "f"

FailedTasks == {t \in ContentTasks : t.result.some /\ ~t.result.val.ok}

\* the error of the attempt that a request of the log made: the transport
\* error under the attempt's number, or the extraction failure; the code has
\* no message for a body that could not be read
IsErrorOf(message, requests, k) ==
    LET o == requests[k].outcome
    IN \/ o.kind = "transport error" /\ message = [text |-> "Attempt", attempt |-> k]
       \/ GotDocument(o) /\ message = [text |-> "Content extraction failed", attempt |-> 0]

\* C31: the message of a failure is the error of the last attempt, and it is
\* never empty.
C31_LastErrorCarried ==
    \A t \in FailedTasks :
        /\ t.result.val.val # NoError
        /\ IsErrorOf(t.result.val.val, RequestsOf(t), Len(RequestsOf(t)))

\* three responses whose bodies could not be read: the failure carries the
\* empty message
C31_Witness ==
    \E t \in FailedTasks :
        /\ t.result.val.val = NoError
        /\ Len(RequestsOf(t)) = Len(USER_AGENTS)
        /\ \A k \in 1..Len(RequestsOf(t)) :
              RequestsOf(t)[k].outcome = [kind |-> "response", body |-> None]

\* the first text of a sequence that is longer than min, if there is one
FirstLonger(texts, min) ==
    LET longer == {i \in 1..Len(texts) : texts[i].len > min}
    IN IF longer = {} THEN None
       ELSE Some(texts[CHOOSE i \in longer : \A j \in longer : i <= j])

\* the paragraph blocks longer than 20 characters, joined, if there is one
LongParagraphs(doc) ==
    LET kept == SelectSeq(doc.paragraphs, LAMBDA t : t.len > MinParagraphLen)
    IN IF kept = <<>> THEN None ELSE Some(JoinParagraphs(kept))

\* what one request that received the document makes fetch_article_content
\* return: Some(text), or None when it goes on to the next identity
ResultFor(doc) ==
    LET a == Attempt([kind |-> "response", body |-> Some(doc)], 0, NoError)
    IN IF a.returned.some THEN Some(a.returned.val.val) ELSE None

\* the documents that the requests of the tasks received
ReceivedDocuments ==
    {e.outcome.body.val :
        e \in {x \in UNION {Range(RequestsOf(t)) : t \in ContentTasks} :
                  GotDocument(x.outcome)}}

AttemptedBy(oldRuns, newRuns, oldDrained, newDrained) ==
    (IF Len(newRuns) > Len(oldRuns)
     THEN {newRuns[Len(newRuns)].handles[i].source.name :
              i \in 1..Len(newRuns[Len(newRuns)].handles)}
     ELSE {})
    \cup (IF newDrained # oldDrained
          THEN {newDrained.results[i].name : i \in 1..Len(newDrained.results)}
          ELSE {})

\* C33: a record of the rate limiter is created only by a step that starts a
\* retrieval for the source of that name or drains one, and no step removes a
\* record.
C33_RecordOnlyAfterAttempt ==
    [][/\ DOMAIN source_fetch_state \subseteq DOMAIN source_fetch_state'
       /\ (DOMAIN source_fetch_state' \ DOMAIN source_fetch_state)
             \subseteq AttemptedBy(runs, runs', drained, drained')]_vars

\* the initial run left a disabled source out, and the source has a record
C33_Witness ==
    \E r \in 1..Len(runs) :
        /\ runs[r].kind = "initial"
        /\ \E name \in runs[r].skipped : name \in DOMAIN source_fetch_state

\* the store holds a body for the article of the url
StoreHolds(url) == \E i \in 1..Len(db) : db[i].url = url /\ db[i].id \in DOMAIN db_content

FreshDisplay ==
    RecomputeDisplay(articles, filter_mode, watchlist, ticker_filter, search_query,
                     content_cache, selected_index).cached_display

\* C35: whenever display_dirty is false, cached_display is what
\* recompute_display would produce from the current articles, filter mode,
\* ticker filter, search query, watchlist and content cache.
C35_CacheCoherent == ~display_dirty => cached_display = FreshDisplay

\* a body that the search query matches has been cached for an article whose
\* title the query does not match, with the projection not marked dirty
C35_Witness ==
    /\ ~display_dirty
    /\ search_query # <<>>
    /\ \E i \in 1..Len(articles) :
          /\ ~PassesSearch(articles[i], search_query, <<>>)
          /\ PassesSearch(articles[i], search_query, content_cache)

\* the sum of 1 + dup_count over the rows from row r on
RECURSIVE RowTotal(_, _)
RowTotal(rows, r) ==
    IF r > Len(rows) THEN 0 ELSE 1 + rows[r].dup_count + RowTotal(rows, r + 1)

\* the article at idx is folded into some row as a duplicate (every article of
\* the pool has a source of its own)
IsFolded(idx) ==
    \E r \in 1..Len(cached_display) :
        articles[idx + 1].source \in Range(cached_display[r].other_sources)

\* C36: after recompute_display the rows partition the filtered articles: the
\* sum of 1 + dup_count over the rows is the number of filtered articles, each
\* row's dup_count is the length of its other_sources, and no article is both
\* a representative and a folded duplicate.
C36_RowsPartitionFiltered ==
    Recomputed =>
        /\ RowTotal(cached_display, 1) = Len(FilteredSeq)
        /\ \A r \in 1..Len(cached_display) :
              cached_display[r].dup_count = Len(cached_display[r].other_sources)
        /\ \A idx \in Range(AllIndices(articles)) :
              ~(IsRepresentative(idx) /\ IsFolded(idx))

\* a projection of two rows or more, one of which folds a duplicate
C36_Witness ==
    /\ Recomputed
    /\ Len(cached_display) > 1
    /\ \E r \in 1..Len(cached_display) : cached_display[r].dup_count > 0

C38_LoadingEnds ==
    (view_mode = "Reader" /\ content_loading)
        ~> (view_mode # "Reader" \/ (~content_loading /\ reader_content.some))

\* the reader is open and loading, in the Unread mode, and no fetch is running
\* and no message is left: nothing will end the loading
C38_Witness ==
    /\ view_mode = "Reader"
    /\ content_loading
    /\ reader_content = None
    /\ filter_mode = "Unread"
    /\ content_runs = <<>>
    /\ content_chan = <<>>
    /\ pc = "poll"

\* C39: the confirmation of a deletion removes from the list the source that
\* was selected when the deletion was requested, and no other.
C39_DeletesRequested ==
    [][(input_mode.kind = "SourceDelete" /\ sources' # sources) =>
          /\ delete_requested.some
          /\ \E k \in 1..Len(sources) :
                /\ sources[k] = delete_requested.val
                /\ sources' = RemoveAt(sources, k)]_vars

\* a deletion was requested and confirmed: one source is left, and it is not
\* the one the request named
C39_Witness ==
    /\ delete_requested.some
    /\ input_mode.kind = "Normal"
    /\ Len(sources) = 1
    /\ sources[1] # delete_requested.val

\* the text that spawn_content_fetch makes of a failed run
IsFailureText(content) ==
    /\ Len(content) >= Len(FailedToLoad)
    /\ SubSeq(content, 1, Len(FailedToLoad)) = FailedToLoad

\* C40: when the message of a failed content retrieval is drained, no body is
\* written to the content cache or to the stored bodies, and the url is
\* recorded in failed_content_urls.
C40_FailureWritesNoBody ==
    [][(/\ pc = "drain_content"
        /\ content_chan # <<>>
        /\ IsFailureText(Head(content_chan).content)) =>
          /\ content_cache' = content_cache
          /\ db_content' = db_content
          /\ Head(content_chan).url \in failed_content_urls']_vars

\* the message of a failed retrieval was drained for a listed article: its
\* text is in the content cache and among the stored bodies
C40_Witness ==
    /\ \E url \in DOMAIN content_cache : IsFailureText(content_cache[url])
    /\ \E id \in DOMAIN db_content : IsFailureText(db_content[id])

====
